---- MODULE Spec2Model ----
(***************************************************************************)
(* Verification model of the rylone hexagon/Yelp pipeline.                 *)
(*                                                                         *)
(* Part 1 (SpecGate): RateLimiter of src/src/lib/rateLimiter.ts with its   *)
(* two interval timers, the processQueue loop and its retry timers, driven *)
(* by callers of waitForSlot that arrive at arbitrary instants.            *)
(*                                                                         *)
(* Time is discrete.  One second is TicksPerSec ticks; the 20 ms pause of  *)
(* the processQueue loop is shorter than one tick, so the loop may resume  *)
(* in the tick it paused in or in any later one.                           *)
(*                                                                         *)
(* Part 2 (SpecPipe): pipeline runs served one after the other: the POST   *)
(* process_hexagons handler of src/src/app/api/yelp/route.ts with the      *)
(* search engine of src/src/lib/yelpSearch.ts, and processTwoPhaseAlgorithm*)
(* of the hexagon processor, over the three singletons (rate limiter,      *)
(* quota manager, hexagon processor).  A run is cut at its real waits: an  *)
(* outstanding request to the API, the 100 ms pause after a probe, a       *)
(* limiter slot that is not granted at once.  No timer fires in SpecPipe.  *)
(*                                                                         *)
(* Part 3 (SpecProc): the hexagon processor under the POST handlers that   *)
(* call it directly (test_subdivision, test_coverage, clear_history) and   *)
(* under processTwoPhaseAlgorithm.                                         *)
(*                                                                         *)
(* Part 4 (SpecLib): the exported library functions and the public methods *)
(* of the processor and the quota manager, each called on its own on       *)
(* arbitrary arguments (a method on an instance of its own).               *)
(*                                                                         *)
(* Part 5 (SpecClear): the rate limiter of part 1 with the clear_history   *)
(* handler of route.ts called between its steps.                           *)
(*                                                                         *)
(* Part 6 (SpecGateLive): the rate limiter of part 1 whose admitted callers*)
(* may call waitForSlot again, with weak fairness on every timer and on    *)
(* the resumption of the processQueue loop.                                *)
(*                                                                         *)
(* Part 7 (SpecRetry): processWithRetry of the hexagon processor, cut at   *)
(* its two waits, the operation and the backoff delay, with weak fairness  *)
(* on both.                                                                *)
(*                                                                         *)
(* Part 8 (SpecObject): the exported hexagonProcessor under calls of its   *)
(* public methods one after the other, on one instance.                    *)
(***************************************************************************)
EXTENDS Integers, Sequences, FiniteSets, TLC

\* ---------------------------------------------------------------- bounds
\* ticks per second of model time (the windows of the per-second limit)
TicksPerSec == 2
\* seconds between two firings of the 24 h interval timer, scaled down
SecPerDay == 2
\* RateLimiter(maxPerSecond, maxPerDay) as constructed for SpecGate, scaled
GateMaxPerSecond == 2
GateMaxPerDay == 3
\* number of waitForSlot callers that arrive in SpecGate
MaxCallers == 4
\* valid top-level (resolution 7) cells a caller may submit
NumTop == 1
\* children h3.cellToChildren returns per parent, scaled down from 7
Branch == 2
\* longest list of cells submitted with one request
MaxInput == 2
\* the daily limit of APIQuotaManager and of RateLimiter as constructed for
\* SpecPipe and SpecProc, scaled down from 5000
PipeDailyLimit == 40
\* library calls: longest list of businesses given to deduplicateBusinesses
MaxItems == 3
\* most child results given to mergeSubHexagonResults: children that list
\* no business, and children that list up to MaxChildItems businesses
MaxBareChildren == 3
MaxChildren == 2
MaxChildItems == 1
\* business counts tried on each side of the density threshold
CountSpan == 1
\* library calls of the quota manager: its daily limit, and the most
\* hexagons an estimate is asked for
EstDailyLimit == 100
MaxEstHexagons == 10
\* the largest cell area (km2) and the longest probe list of a library call
MaxArea == 12
MaxPlan == 3
\* the most results the final statistics are computed from
MaxResults == 6
\* the largest maxRetries a retry is called with
MaxRetries == 3
\* distinct business ids
NumIds == 2

VARIABLES
  \* RateLimiter fields
  maxPerSecond, maxPerDay, dailyCalls, perSecondCalls, requestQueue, isProcessing,
  \* pending timers: setTimeout(processQueue, 1000) and the two setInterval timers
  retryTimers, secTimer, dayTimer,
  \* observation of the gate: callers arrived, callers admitted, admissions per
  \* tick over the last second, whether the daily counter was ever reset
  nextCaller, admitted, windowLog, dailyResetSeen,
  \* the global hexagonProcessor: its six maps
  hp,
  \* the global yelpQuotaManager: dailyUsage, currentSecondUsage and limits
  qm,
  \* the request being served: position and locals of the handler
  run,
  \* the call of a library function made outside a pipeline run that has
  \* just returned: the function, its arguments, what it returned and, for a
  \* method of a processor, the processor after the call
  call

gateVars == <<maxPerSecond, maxPerDay, dailyCalls, perSecondCalls, requestQueue,
              isProcessing, retryTimers, secTimer, dayTimer,
              nextCaller, admitted, windowLog, dailyResetSeen>>

pipeVars == <<hp, qm, run>>

vars == <<gateVars, pipeVars, call>>

\* ------------------------------------------------------------ RateLimiter

\* new RateLimiter(50, 5000), new APIQuotaManager(5000, 50): calls per second
YelpPerSecond == 50

DayTicks == SecPerDay * TicksPerSec

\* setTimeout(() => this.processQueue(), 1000): one second, in ticks
RetryTicks == TicksPerSec

Min(a, b) == IF a < b THEN a ELSE b

RECURSIVE SumSeq(_)
SumSeq(s) == IF s = <<>> THEN 0 ELSE Head(s) + SumSeq(Tail(s))

canMakeRequestOffByOne(dc, psc) ==
  ~(dc > maxPerDay) /\ ~(psc >= maxPerSecond)

\* canMakeRequest(): false at the daily limit, false at the per-second limit
canMakeRequest(dc, psc) ==
  ~(dc >= maxPerDay) /\ ~(psc >= maxPerSecond)

\* the while loop of processQueue from its test on: either the head of the
\* queue is shifted, its callback run (makeRequest, resolve) and the loop
\* pauses 20 ms with isProcessing still set, or the loop ends, isProcessing
\* is cleared and a retry timer is set when callers remain
processQueueLoop(q, dc, psc, timers) ==
  IF Len(q) > 0 /\ canMakeRequest(dc, psc)
  THEN [queue |-> Tail(q), processing |-> TRUE, dc |-> dc + 1, psc |-> psc + 1,
        timers |-> timers, resolved |-> {Head(q)}]
  ELSE [queue |-> q, processing |-> FALSE, dc |-> dc, psc |-> psc,
        timers |-> IF Len(q) > 0
                   THEN [timers EXCEPT ![RetryTicks] = @ + 1]
                   ELSE timers,
        resolved |-> {}]

\* processQueue(): returns at once when a loop is running or nobody waits
processQueue(q, proc, dc, psc, timers) ==
  IF proc \/ Len(q) = 0
  THEN [queue |-> q, processing |-> proc, dc |-> dc, psc |-> psc,
        timers |-> timers, resolved |-> {}]
  ELSE processQueueLoop(q, dc, psc, timers)

\* the effect of one admission on the observation variables
Admit(ids) ==
  /\ admitted' = admitted \cup ids
  /\ windowLog' = [windowLog EXCEPT ![Len(windowLog)] = @ + Cardinality(ids)]

\* stores the outcome r of processQueue / processQueueLoop
Store(r) ==
  /\ requestQueue' = r.queue
  /\ isProcessing' = r.processing
  /\ dailyCalls' = r.dc
  /\ perSecondCalls' = r.psc
  /\ retryTimers' = r.timers
  /\ Admit(r.resolved)

\* waitForSlot() called by caller c: admitted at once when canMakeRequest(),
\* otherwise its callback is pushed and processQueue() is called
waitForSlot(c) ==
  IF canMakeRequest(dailyCalls, perSecondCalls)
  THEN /\ dailyCalls' = dailyCalls + 1
       /\ perSecondCalls' = perSecondCalls + 1
       /\ Admit({c})
       /\ UNCHANGED <<requestQueue, isProcessing, retryTimers>>
  ELSE Store(processQueue(Append(requestQueue, c), isProcessing,
                          dailyCalls, perSecondCalls, retryTimers))

\* a new caller arrives and calls waitForSlot
CallerArrives ==
  /\ nextCaller <= MaxCallers
  /\ waitForSlot(nextCaller)
  /\ nextCaller' = nextCaller + 1
  /\ UNCHANGED <<maxPerSecond, maxPerDay, secTimer, dayTimer, dailyResetSeen>>

\* the 20 ms pause of the loop is over: the loop tests its condition again
ProcessQueueResume ==
  /\ isProcessing
  /\ Store(processQueueLoop(requestQueue, dailyCalls, perSecondCalls, retryTimers))
  /\ UNCHANGED <<maxPerSecond, maxPerDay, secTimer, dayTimer, nextCaller,
                 dailyResetSeen>>

\* a setTimeout(() => this.processQueue(), 1000) timer fires
RetryTimerFires ==
  /\ retryTimers[0] > 0
  /\ Store(processQueue(requestQueue, isProcessing, dailyCalls, perSecondCalls,
                        [retryTimers EXCEPT ![0] = @ - 1]))
  /\ UNCHANGED <<maxPerSecond, maxPerDay, secTimer, dayTimer, nextCaller,
                 dailyResetSeen>>

\* setInterval(() => this.resetPerSecondCounter(), 1000)
resetPerSecondCounter ==
  /\ secTimer = 0
  /\ perSecondCalls' = 0
  /\ secTimer' = TicksPerSec
  /\ UNCHANGED <<maxPerSecond, maxPerDay, dailyCalls, requestQueue, isProcessing,
                 retryTimers, dayTimer, nextCaller, admitted, windowLog,
                 dailyResetSeen>>

\* setInterval(() => this.resetDailyCounter(), 24 h)
resetDailyCounter ==
  /\ dayTimer = 0
  /\ dailyCalls' = 0
  /\ dayTimer' = DayTicks
  /\ dailyResetSeen' = TRUE
  /\ UNCHANGED <<maxPerSecond, maxPerDay, perSecondCalls, requestQueue,
                 isProcessing, retryTimers, secTimer, nextCaller, admitted,
                 windowLog>>

\* resetDailyQuota(): the manual reset
resetDailyQuota ==
  /\ dailyCalls' = 0
  /\ dailyResetSeen' = TRUE
  /\ UNCHANGED <<maxPerSecond, maxPerDay, perSecondCalls, requestQueue,
                 isProcessing, retryTimers, secTimer, dayTimer, nextCaller,
                 admitted, windowLog>>

\* one tick of time passes; a timer that is due fires before time moves on
Tick ==
  /\ secTimer > 0
  /\ dayTimer > 0
  /\ retryTimers[0] = 0
  /\ secTimer' = secTimer - 1
  /\ dayTimer' = dayTimer - 1
  /\ retryTimers' = [d \in 0..RetryTicks |->
                       IF d < RetryTicks THEN retryTimers[d + 1] ELSE 0]
  /\ windowLog' = Append(Tail(windowLog), 0)
  /\ UNCHANGED <<maxPerSecond, maxPerDay, dailyCalls, perSecondCalls,
                 requestQueue, isProcessing, nextCaller, admitted, dailyResetSeen>>

\* new RateLimiter(perSecond, perDay): the counters at zero, nobody queued,
\* the two interval timers armed
InitLimiter(perSecond, perDay) ==
  /\ maxPerSecond = perSecond
  /\ maxPerDay = perDay
  /\ dailyCalls = 0
  /\ perSecondCalls = 0
  /\ requestQueue = <<>>
  /\ isProcessing = FALSE
  /\ retryTimers = [d \in 0..RetryTicks |-> 0]
  /\ secTimer = TicksPerSec
  /\ dayTimer = DayTicks
  /\ nextCaller = 1
  /\ admitted = {}
  /\ windowLog = [i \in 1..TicksPerSec |-> 0]
  /\ dailyResetSeen = FALSE

\* ------------------------------------------------- grid-indexing (h3-js)

\* the cell ids a caller can submit: NumTop valid resolution-7 cells and one
\* string that is no valid cell; the children of top-level cell p follow
BadCell == 0
Tops == 1..NumTop
ChildId(p, k) == NumTop + (p - 1) * Branch + k
ChildCells == {ChildId(p, k) : p \in Tops, k \in 1..Branch}
ValidCells == Tops \cup ChildCells

\* one coarser cell, of resolution 6, that only library calls are given
CoarseCell == 0 - 2
KnownCells == ValidCells \cup {CoarseCell}

\* an optional field that is undefined
Undefined == 0 - 1

\* h3.getResolution
getResolution(h) == IF h = CoarseCell THEN 6 ELSE IF h \in Tops THEN 7 ELSE 8

\* a cell below h at a resolution finer than the grid kept here
DeepId(h, target, k) == 1000 * target + 10 * h + k

\* h3.cellToChildren(h, target) for a valid cell: the cell itself at its own
\* resolution, its Branch children one level finer, nothing coarser; of the
\* cells below h at a still finer resolution, Branch are listed
cellToChildren(h, target) ==
  IF target = getResolution(h) THEN <<h>>
  ELSE IF h \in Tops /\ target = 8 THEN [k \in 1..Branch |-> ChildId(h, k)]
  ELSE IF target > getResolution(h)
       THEN [k \in 1..Branch |-> DeepId(h, target, k)]
  ELSE <<>>

\* h3.cellArea(h, 'km2'), rounded: about 36.1 at resolution 6, 5.16 at 7,
\* 0.74 at 8
AreaRes6 == 36
AreaRes7 == 5
AreaRes8 == 1
cellArea(h) ==
  IF h = CoarseCell THEN AreaRes6 ELSE IF h \in Tops THEN AreaRes7 ELSE AreaRes8

\* h3.cellToBoundary(h, true): the vertices of the cell in their order, as a
\* closed loop (the first vertex is repeated at the end); vertices are
\* numbered.  A hexagon has six, one of the twelve pentagons has five
HexagonBoundary == <<1, 2, 3, 4, 5, 6, 1>>
PentagonBoundary == <<1, 2, 3, 4, 5, 1>>
cellToBoundary(h) == HexagonBoundary

\* calculateHexagonArea: the area, or 0 when h3.cellArea throws
calculateHexagonArea(h) == IF h \in KnownCells THEN cellArea(h) ELSE 0

\* ------------------------------------------------------ hexagonCoverage

\* a probe: its role and the boundary vertices that place it (none: the
\* center; one: that vertex; two: the midpoint between them)
Probe(type, at) == [type |-> type, at |-> at]

\* generateCornerSearches: a probe at each of the first maxCorners vertices
generateAllCorners(boundary, maxCorners) ==
  [i \in 1..Len(boundary) |-> Probe("corner", <<boundary[i]>>)]
generateCornerSearches(boundary, maxCorners) ==
  [i \in 1..Min(maxCorners, Len(boundary)) |-> Probe("corner", <<boundary[i]>>)]

\* generateEdgeSearches: a probe at the midpoint of each of the first
\* maxEdges edges
generateEdgeSearches(boundary, maxEdges) ==
  [i \in 1..Min(maxEdges, Len(boundary)) |->
     Probe("edge", <<boundary[i], boundary[(i % Len(boundary)) + 1]>>)]

\* generateAdaptiveSearchPoints: the primary probe, then more by area
generateAdaptiveSearchPoints(boundary, area) ==
  <<Probe("primary", <<>>)>> \o
    (IF area > 8
     THEN generateCornerSearches(boundary, 3) \o generateEdgeSearches(boundary, 2)
     ELSE IF area > 3 THEN generateCornerSearches(boundary, 2)
     ELSE <<>>)

\* generateSearchPoints: throws for an id h3 rejects (ok = FALSE)
generateSearchPoints(h) ==
  IF h \in KnownCells
  THEN [ok |-> TRUE, h3Id |-> h,
        searchPoints |->
          generateAdaptiveSearchPoints(cellToBoundary(h),
                                       calculateHexagonArea(h))]
  ELSE [ok |-> FALSE, h3Id |-> h, searchPoints |-> <<>>]

\* validateCoverage
validateCoverage(cov) ==
  LET pts == cov.searchPoints
      corners == {i \in 1..Len(pts) : pts[i].type = "corner"}
  IN /\ Len(pts) # 0
     /\ \E i \in 1..Len(pts) : pts[i].type = "primary"
     /\ ~(calculateHexagonArea(cov.h3Id) > 10 /\ Cardinality(corners) < 2)

\* ------------------------------------------------------ hexagonSplitter

\* the density threshold of detectDenseHexagon
DenseThreshold == 240

\* detectDenseHexagon
detectDenseAtThreshold(total) == total >= DenseThreshold
detectDenseHexagon(total) == total > DenseThreshold

\* splitHexagon: throws (ok = FALSE) when the target is not finer or h3
\* rejects the id; otherwise one queued child record per child cell
splitHexagon(h, currentResolution, targetResolution) ==
  IF targetResolution <= currentResolution \/ h \notin KnownCells
  THEN [ok |-> FALSE, splitHexagons |-> <<>>]
  ELSE LET kids == cellToChildren(h, targetResolution)
       IN [ok |-> TRUE,
           splitHexagons |-> [i \in 1..Len(kids) |->
              [h3Id |-> kids[i], parentH3Id |-> h,
               resolution |-> targetResolution, status |-> "queued"]]]

\* validateSplitConfiguration (no function of the repository calls it)
MaxSplitJump == 2
MaxSplitResolution == 12
validateSplitConfiguration(currentResolution, targetResolution) ==
  /\ ~(targetResolution <= currentResolution)
  /\ ~(targetResolution - currentResolution > MaxSplitJump)
  /\ ~(targetResolution > MaxSplitResolution)

\* ------------------------------------------------------ apiQuotaManager

\* estimateQuotaForCity(...).canProcessRequest; estimatedPagesPerSearch is
\* 1.5 or 2.0 in every call, so it is passed doubled
canProcessRequest(q, hexagonCount, pointsPerHexagon, pagesTimes2) ==
  hexagonCount * pointsPerHexagon * pagesTimes2 <= 2 * (q.dailyLimit - q.dailyUsage)

\* estimateQuotaForCity: estimatedCalls is kept doubled (pagesTimes2), so
\* "estimatedCalls > remainingQuota * 0.8" reads 10 * doubled > 16 * remaining,
\* and likewise for 0.6 and 0.4
estimateQuotaForCity(q, hexagonCount, pointsPerHexagon, pagesTimes2) ==
  LET calls2 == hexagonCount * pointsPerHexagon * pagesTimes2
      remainingQuota == q.dailyLimit - q.dailyUsage
  IN [estimatedCallsTimes2 |-> calls2,
      currentDailyUsage |-> q.dailyUsage,
      remainingQuota |-> remainingQuota,
      canProcessRequest |-> canProcessRequest(q, hexagonCount, pointsPerHexagon,
                                              pagesTimes2),
      riskLevel |-> IF 10 * calls2 > 16 * remainingQuota THEN "critical"
                    ELSE IF 10 * calls2 > 12 * remainingQuota THEN "high"
                    ELSE IF 10 * calls2 > 8 * remainingQuota THEN "medium"
                    ELSE "low"]

\* trackAPICall
trackAPICall(q) ==
  [q EXCEPT !.dailyUsage = @ + 1, !.currentSecondUsage = @ + 1]

\* resetQuota
resetQuota(q) == [q EXCEPT !.dailyUsage = 0, !.currentSecondUsage = 0]

\* getQuotaStatus().dailyRemaining
dailyRemaining(q) == q.dailyLimit - q.dailyUsage

\* ----------------------------------------------------- hexagonProcessor

\* Map.set on a map kept as a function; the empty map
MapSet(m, k, v) == [x \in DOMAIN m \cup {k} |-> IF x = k THEN v ELSE m[x]]
EmptyMap == [x \in {} |-> 0]

\* subdivisionQueue keeps its insertion order (it is iterated): a sequence of
\* records; set replaces in place or appends, delete removes
SeqKeys(q) == {q[i].h3Id : i \in 1..Len(q)}
SeqSet(q, r) ==
  IF r.h3Id \in SeqKeys(q)
  THEN [i \in 1..Len(q) |-> IF q[i].h3Id = r.h3Id THEN r ELSE q[i]]
  ELSE Append(q, r)
SeqDelete(q, k) == SelectSeq(q, LAMBDA r : r.h3Id # k)
SeqGet(q, k) == (CHOOSE i \in 1..Len(q) : q[i].h3Id = k)

\* a HexagonProcessingStatus; undefined childH3Ids is written <<>>
Status(h, res, st, total, needs, parent, kids, err) ==
  [h3Id |-> h, resolution |-> res, status |-> st, totalBusinesses |-> total,
   needsSubdivision |-> needs, parentH3Id |-> parent, childH3Ids |-> kids,
   error |-> err]

\* updateProcessingStatus
updateProcessingStatus(p, h, st, res) ==
  LET cur == IF h \in DOMAIN p.processingQueue
             THEN p.processingQueue[h]
             ELSE Status(h, res, "queued", Undefined, FALSE, Undefined, <<>>, FALSE)
  IN [p EXCEPT !.processingQueue =
        MapSet(@, h, [cur EXCEPT !.status = st, !.resolution = res])]

\* no yelpResult argument
NoYelp == [given |-> FALSE, totalBusinesses |-> 0, status |-> "none",
           allProbesFailed |-> FALSE, error |-> "none"]

\* processHexagonWithCoverage: the processor after the call and the record
\* returned (the same object the call stored in completed / failedHexagons)
processHexagonWithCoverage(p, h, res, yelp) ==
  LET p1 == updateProcessingStatus(p, h, "processing", res)
      cov == generateSearchPoints(h)
  IN IF cov.ok /\ validateCoverage(cov)
     THEN LET total == IF yelp.given THEN yelp.totalBusinesses ELSE 0
              st == IF yelp.given /\ yelp.status = "split" THEN "split" ELSE "fetched"
              rec == Status(h, res, st, total, total > 240,
                            Undefined, <<>>, FALSE)
              p2 == updateProcessingStatus(p1, h, st, res)
          IN [hp |-> [p2 EXCEPT !.completedHexagons = MapSet(@, h, rec)],
              result |-> rec]
     ELSE LET rec == Status(h, res, "failed", Undefined, FALSE, Undefined, <<>>, TRUE)
              p2 == updateProcessingStatus(p1, h, "failed", res)
          IN [hp |-> [p2 EXCEPT !.failedHexagons = MapSet(@, h, rec)],
              result |-> rec]

RECURSIVE queueChildren(_, _, _, _)
\* the loop of handleDenseHexagons over splitResult.splitHexagons
queueChildren(p, kids, h, targetResolution) ==
  IF kids = <<>> THEN p
  ELSE LET c == Head(kids).h3Id
           rec == Status(c, targetResolution, "queued", Undefined, FALSE,
                         h, <<>>, FALSE)
       IN queueChildren(
            [p EXCEPT !.subdivisionQueue = SeqSet(@, rec),
                      !.childParentRelationships = MapSet(@, c, h)],
            Tail(kids), h, targetResolution)

\* handleDenseHexagons
handleDenseHexagons(p, h, total, currentResolution) ==
  LET targetResolution == currentResolution + 1
      split == splitHexagon(h, currentResolution, targetResolution)
  IN IF detectDenseHexagon(total) /\ split.ok
     THEN LET ids == [i \in 1..Len(split.splitHexagons) |->
                        split.splitHexagons[i].h3Id]
              rec == Status(h, currentResolution, "split", total, TRUE,
                            Undefined, ids, FALSE)
              p1 == updateProcessingStatus(p, h, "split", currentResolution)
              p2 == [p1 EXCEPT !.completedHexagons = MapSet(@, h, rec),
                               !.parentChildRelationships = MapSet(@, h, ids)]
          IN [hp |-> queueChildren(p2, split.splitHexagons, h, targetResolution),
              result |-> rec]
     ELSE LET rec == Status(h, currentResolution, "failed", Undefined, FALSE,
                            Undefined, <<>>, TRUE)
              p1 == updateProcessingStatus(p, h, "failed", currentResolution)
          IN [hp |-> [p1 EXCEPT !.failedHexagons = MapSet(@, h, rec)],
              result |-> rec]

\* getHexagonStatus: the first map that has the cell, or none
hasHexagonStatus(p, h) ==
  \/ h \in DOMAIN p.processingQueue
  \/ h \in DOMAIN p.completedHexagons
  \/ h \in DOMAIN p.failedHexagons
  \/ h \in SeqKeys(p.subdivisionQueue)
getHexagonStatus(p, h) ==
  IF h \in DOMAIN p.processingQueue THEN p.processingQueue[h]
  ELSE IF h \in DOMAIN p.completedHexagons THEN p.completedHexagons[h]
  ELSE IF h \in DOMAIN p.failedHexagons THEN p.failedHexagons[h]
  ELSE p.subdivisionQueue[SeqGet(p.subdivisionQueue, h)]

\* checkSubdivisionQuota(hexagonCount).canProcess
checkSubdivisionQuota(q, hexagonCount) ==
  canProcessRequest(q, hexagonCount, 8, 4) /\ hexagonCount <= 100

\* checkHexagonQuota(h3Id, resolution).canProcess
checkHexagonQuota(p, q, h, res) ==
  /\ canProcessRequest(q, 1, res, 3)
  /\ ~hasHexagonStatus(p, h) \/ getHexagonStatus(p, h).status # "fetched"

RECURSIVE subdivisionLoop(_, _, _, _)
\* the for loop of processSubdivisionQueue over the queued records: a cell
\* whose own quota check fails is skipped and stays queued; otherwise it is
\* processed, the returned record gets the parent id (that record is the
\* object already stored by processHexagonWithCoverage), it is set in
\* completedHexagons, deleted from the queue and one API call is tracked
subdivisionLoop(p, q, todo, results) ==
  IF todo = <<>> THEN [hp |-> p, qm |-> q, results |-> results]
  ELSE LET sh == Head(todo)
       IN IF ~checkHexagonQuota(p, q, sh.h3Id, sh.resolution)
          THEN subdivisionLoop(p, q, Tail(todo), results)
          ELSE LET out == processHexagonWithCoverage(p, sh.h3Id, sh.resolution, NoYelp)
                   res == [out.result EXCEPT !.parentH3Id = sh.parentH3Id]
                   p1 == IF res.status = "failed"
                         THEN [out.hp EXCEPT !.failedHexagons = MapSet(@, sh.h3Id, res)]
                         ELSE out.hp
                   p2 == [p1 EXCEPT
                            !.completedHexagons = MapSet(@, sh.h3Id, res),
                            !.subdivisionQueue = SeqDelete(@, sh.h3Id)]
               IN subdivisionLoop(p2, trackAPICall(q), Tail(todo), Append(results, res))

\* processSubdivisionQueue
processSubdivisionQueue(p, q) ==
  LET todo == SelectSeq(p.subdivisionQueue, LAMBDA r : r.status = "queued")
  IN IF Len(todo) = 0 \/ ~checkSubdivisionQuota(q, Len(todo))
     THEN [hp |-> p, qm |-> q, results |-> <<>>]
     ELSE subdivisionLoop(p, q, todo, <<>>)

\* detectAndHandleSubdivision: a dense cell goes to handleDenseHexagons;
\* otherwise the record getHexagonStatus finds is changed in place (in the
\* map that holds it) and set in completedHexagons, or a new record is made
detectAndHandleSubdivision(p, h, totalBusinesses, currentResolution) ==
  IF totalBusinesses > 240
  THEN handleDenseHexagons(p, h, totalBusinesses, currentResolution)
  ELSE IF hasHexagonStatus(p, h)
  THEN LET rec == [getHexagonStatus(p, h) EXCEPT
                     !.needsSubdivision = FALSE,
                     !.totalBusinesses = totalBusinesses,
                     !.status = "fetched"]
           p1 == IF h \in DOMAIN p.processingQueue
                 THEN [p EXCEPT !.processingQueue = MapSet(@, h, rec)]
                 ELSE IF h \in DOMAIN p.completedHexagons THEN p
                 ELSE IF h \in DOMAIN p.failedHexagons
                 THEN [p EXCEPT !.failedHexagons = MapSet(@, h, rec)]
                 ELSE [p EXCEPT !.subdivisionQueue = SeqSet(@, rec)]
       IN [hp |-> [p1 EXCEPT !.completedHexagons = MapSet(@, h, rec)],
           result |-> rec]
  ELSE LET rec == Status(h, currentResolution, "fetched", totalBusinesses,
                         FALSE, Undefined, <<>>, FALSE)
       IN [hp |-> [p EXCEPT !.completedHexagons = MapSet(@, h, rec)],
           result |-> rec]

\* clearHistory of the processor
clearedProcessor ==
  [processingQueue |-> EmptyMap, completedHexagons |-> EmptyMap,
   failedHexagons |-> EmptyMap, subdivisionQueue |-> <<>>,
   parentChildRelationships |-> EmptyMap, childParentRelationships |-> EmptyMap]

\* ------------------------------------------------------------ yelpSearch

\* searchPointWithPagination: page size asked of the API and last offset
PageLimit == 50
MaxOffset == 200

\* the API's answers to a first-page request: its total, and a page that is
\* as full as the total allows
Totals == {0, 120, 300}
FirstPage(t) == IF t < PageLimit THEN t ELSE PageLimit

\* what is left of the sum businesses collected by the probes of a cell after
\* validateBusinessBoundaries and deduplicateBusinesses: anything up to sum;
\* nothing and the two values at the density threshold stand for all
Kept(sum) == {n \in {0, DenseThreshold, DenseThreshold + 1} : n <= sum}

\* the caller id under which the request being served waits at the limiter
RunCaller == 0

\* the finalStats of a response that carries none
NoStats == [totalProcessed |-> 0, totalSplit |-> 0, totalBusinesses |-> 0,
            coverageQuality |-> "none"]

\* no request is being served; resp is the last response sent; finalStats is
\* what the last call of processTwoPhaseAlgorithm returned under that name.  phase1Results
\* is the list of that name processHexagons and processTwoPhaseAlgorithm
\* build; errors counts the probes of the current cell whose result has
\* status failed; testMode is the flag of the request.  terminal and
\* phase1Complete observe a run: the input positions whose cell Phase 1 has
\* finished with, and whether that was all of them when Phase 2 began;
\* requested, slots and lastPage observe the current probe: the offsets of
\* the page requests sent so far, the number of limiter slots it was granted,
\* and what the last answer was
IdleRun(resp, complete) ==
  [pc |-> "idle", kind |-> "none", hexagons |-> <<>>, phase |-> 0, i |-> 0,
   cell |-> Undefined, nProbes |-> 0, probe |-> 0, offset |-> 0, total |-> 0,
   acc |-> 0, sum |-> 0, errors |-> 0, testMode |-> FALSE, subResults |-> <<>>, dense |-> {},
   requested |-> <<>>, slots |-> 0, lastPage |-> "none", finalStats |-> NoStats,
   phase1Results |-> <<>>, terminal |-> {}, phase1Complete |-> complete, response |-> resp]

\* the cell the request is working on
CurrentList(r) == IF r.phase = 1 THEN r.hexagons ELSE r.subResults

\* searchHexagon up to searchAllPoints: quota estimate, coverage, validation
searchHexagonStarts(q, h) ==
  /\ canProcessRequest(q, 1, 7, 3)
  /\ generateSearchPoints(h).ok
  /\ validateCoverage(generateSearchPoints(h))

\* the result searchHexagon returns from its catch block
FailedYelp == [given |-> TRUE, totalBusinesses |-> 0, status |-> "failed",
               allProbesFailed |-> FALSE, error |-> "Error"]

\* the message of the error searchHexagon throws before it searches
searchError(q, h) ==
  IF ~canProcessRequest(q, 1, 7, 3) THEN "Insufficient quota"
  ELSE "Invalid hexagon coverage"

\* the route's Phase 1 loop test
phase1DoneEarly(i, hexagons) == i >= Len(hexagons)
phase1Done(i, hexagons) == i > Len(hexagons)

\* the per-cell states a cell ends in
TerminalStates == {"fetched", "failed", "split"}

\* every input cell of the run has been through Phase 1 and is in a terminal
\* state
allTerminal(p, r) ==
  \A i \in 1..Len(r.hexagons) :
    /\ i \in r.terminal
    /\ r.hexagons[i] \in DOMAIN p.processingQueue
    /\ p.processingQueue[r.hexagons[i]].status \in TerminalStates

\* the ids processSubdivisionQueue returned with status fetched
RECURSIVE FetchedIds(_)
FetchedIds(results) ==
  IF results = <<>> THEN <<>>
  ELSE IF Head(results).status = "fetched"
       THEN <<Head(results).h3Id>> \o FetchedIds(Tail(results))
       ELSE FetchedIds(Tail(results))

\* processHexagons from the end of one searchHexagon call on: Phase 1 pushes
\* the result and records it with processHexagonWithCoverage, Phase 2 only
\* collects it
afterSearch(s, yelp) ==
  IF s.run.phase = 1
  THEN [s EXCEPT
          !.hp = processHexagonWithCoverage(s.hp, s.run.cell, 7, yelp).hp,
          !.run.phase1Results =
             Append(@, [h3Id |-> s.run.cell, status |-> yelp.status,
                        allProbesFailed |-> yelp.allProbesFailed,
                        error |-> yelp.error]),
          !.run.terminal = @ \cup {s.run.i},
          !.run.i = @ + 1]
  ELSE [s EXCEPT !.run.i = @ + 1]

RECURSIVE nextCell(_)
\* processHexagons from a loop test on, up to its next wait: the first
\* limiter slot of the next cell that can be searched, or the response (it
\* carries phase1Results); between the two loops it runs
\* processSubdivisionQueue
nextCell(s) ==
  LET r == s.run
  IN IF r.phase = 1 /\ phase1Done(r.i, r.hexagons)
     THEN LET out == processSubdivisionQueue(s.hp, s.qm)
          IN nextCell([hp |-> out.hp, qm |-> out.qm,
                       run |-> [r EXCEPT !.phase = 2, !.i = 1,
                                         !.cell = Undefined,
                                         !.phase1Complete = allTerminal(s.hp, r),
                                         !.subResults = FetchedIds(out.results)]])
     ELSE IF r.phase = 2 /\ r.i > Len(r.subResults)
     THEN [s EXCEPT !.run = [IdleRun("ok", r.phase1Complete) EXCEPT
                               !.phase1Results = r.phase1Results,
                               !.testMode = r.testMode]]
     ELSE LET h == CurrentList(r)[r.i]
              s1 == [s EXCEPT !.run.cell = h]
          IN IF searchHexagonStarts(s.qm, h)
             THEN [s1 EXCEPT !.run.pc = "slotA",
                             !.run.nProbes = Len(generateSearchPoints(h).searchPoints),
                             !.run.probe = 1, !.run.sum = 0, !.run.acc = 0,
                             !.run.errors = 0,
                             !.run.requested = <<>>, !.run.slots = 0,
                             !.run.lastPage = "none",
                             !.run.offset = 0, !.run.total = 0]
             ELSE nextCell(afterSearch(s1,
                    [FailedYelp EXCEPT !.error = searchError(s.qm, h)]))

\* searchAllPoints after searchPointWithPagination returned n businesses for
\* the current probe: the 100 ms pause
probeDone(s, n) ==
  [s EXCEPT !.run.sum = @ + n, !.run.acc = 0, !.run.offset = 0,
            !.run.total = 0, !.run.pc = "sleep"]

\* a request of the current probe failed: makeYelpSearch throws, the catch
\* of searchPointWithPagination returns a result with status failed and no
\* business, and searchAllPoints goes on to its pause
probeFailed(s) ==
  [probeDone(s, 0) EXCEPT !.run.errors = @ + 1, !.run.lastPage = "error"]

\* makeYelpSearch(lat, lng, radius, offset) is called: the request is sent
sendRequest(s, offset, pc) ==
  [s EXCEPT !.run.pc = pc, !.run.requested = Append(@, offset)]

\* the while test of searchPointWithPagination: the next page is requested
\* or the probe is complete
pageLoopToTotal(s) ==
  IF s.run.offset < s.run.total
  THEN sendRequest(s, s.run.offset, "page")
  ELSE probeDone(s, s.run.acc)
pageLoop(s) ==
  LET r == s.run
      bound == IF r.total < MaxOffset THEN r.total ELSE MaxOffset
  IN IF r.offset < bound /\ r.offset < MaxOffset
     THEN sendRequest(s, r.offset, "page")
     ELSE probeDone(s, r.acc)

\* processSearchResults with n businesses left, then the rest of the loop
\* body of processHexagons
processSearchResults(s, n) ==
  LET h == s.run.cell
      clean == [s EXCEPT !.run.sum = 0, !.run.probe = 0, !.run.nProbes = 0,
                         !.run.errors = 0]
      allFailed == s.run.errors = s.run.nProbes
  IN IF detectDenseHexagon(n)
     THEN LET split == splitHexagon(h, 7, 8)
          IN IF ~split.ok
             THEN afterSearch(clean, FailedYelp)
             ELSE afterSearch(
                    [clean EXCEPT !.hp = handleDenseHexagons(s.hp, h, n, 7).hp],
                    [given |-> TRUE, totalBusinesses |-> n, status |-> "split",
                     allProbesFailed |-> allFailed, error |-> "none"])
     ELSE afterSearch(clean,
            [given |-> TRUE, totalBusinesses |-> n, status |-> "fetched",
             allProbesFailed |-> allFailed, error |-> "none"])

\* what follows a limiter slot: trackAPICall, then the first request of the
\* probe (searchAllPoints) or the loop test (searchPointWithPagination)
afterSlot(s) ==
  LET t == [s EXCEPT !.qm = trackAPICall(@), !.run.slots = @ + 1]
  IN IF s.run.pc = "slotA" THEN sendRequest(t, 0, "first")
     ELSE pageLoop(t)

\* the request moves to s; when s asks the limiter for a slot, waitForSlot is
\* called and, if the slot is granted at once, the request goes on
Commit(s) ==
  IF s.run.pc \in {"slotA", "slotP"}
  THEN /\ waitForSlot(RunCaller)
       /\ UNCHANGED <<maxPerSecond, maxPerDay, secTimer, dayTimer, nextCaller,
                      dailyResetSeen>>
       /\ LET t == IF canMakeRequest(dailyCalls, perSecondCalls)
                   THEN afterSlot(s) ELSE s
          IN hp' = t.hp /\ qm' = t.qm /\ run' = t.run
  ELSE /\ UNCHANGED gateVars
       /\ hp' = s.hp /\ qm' = s.qm /\ run' = s.run

Now == [hp |-> hp, qm |-> qm, run |-> run]

\* the lists of cells a request may carry
InputCells == Tops \cup {BadCell}
Inputs == UNION {[1..n -> InputCells] : n \in 1..MaxInput}

\* at most this many cells are processed in test mode
MaxTestHexagons == 10

\* POST process_hexagons: processHexagons up to its first wait
processHexagons(hexagons, testMode) ==
  /\ run.pc = "idle"
  /\ IF \/ ~canProcessRequest(qm, Len(hexagons), 7, 3) /\ ~testMode
        \/ testMode /\ dailyRemaining(qm) < Min(Len(hexagons), MaxTestHexagons) * 3
     THEN /\ run' = IdleRun("429", TRUE)
          /\ UNCHANGED <<gateVars, hp, qm>>
     ELSE LET todo == IF testMode
                      THEN SubSeq(hexagons, 1, Min(Len(hexagons), MaxTestHexagons))
                      ELSE hexagons
          IN Commit(nextCell([Now EXCEPT
               !.run = [IdleRun("none", TRUE) EXCEPT
                          !.pc = "start", !.kind = "route", !.hexagons = todo,
                          !.testMode = testMode,
                          !.phase = 1, !.i = 1]]))

\* the answer to the first request of a probe: an error, or a total and a page
FirstPageReturns ==
  /\ run.pc = "first"
  /\ \/ Commit(probeFailed(Now))
     \/ \E t \in Totals :
          LET s == [Now EXCEPT !.run.total = t, !.run.acc = FirstPage(t),
                               !.run.lastPage = IF FirstPage(t) = 0
                                                THEN "empty" ELSE "full"]
          IN IF t > PageLimit
             THEN Commit(pageLoop([s EXCEPT !.run.offset = PageLimit]))
             ELSE Commit(probeDone(s, s.run.acc))

\* the answer to a later request of a probe: an error (the probe returns no
\* business at all), an empty page (the loop breaks) or a full page (a slot
\* is asked for before the loop test)
NextPageReturns ==
  /\ run.pc = "page"
  /\ \/ Commit(probeFailed(Now))
     \/ Commit(probeDone([Now EXCEPT !.run.lastPage = "empty"], run.acc))
     \/ Commit([Now EXCEPT !.run.acc = @ + PageLimit,
                           !.run.offset = @ + PageLimit,
                           !.run.lastPage = "full",
                           !.run.pc = "slotP"])

\* the 100 ms pause after a probe ends: the next probe asks for its slot, or
\* the results of the cell are processed
PauseEnds ==
  /\ run.pc = "sleep"
  /\ IF run.probe < run.nProbes
     THEN Commit([Now EXCEPT !.run.probe = @ + 1, !.run.pc = "slotA",
                             !.run.requested = <<>>, !.run.slots = 0,
                             !.run.lastPage = "none"])
     ELSE \E n \in Kept(run.sum) : Commit(nextCell(processSearchResults(Now, n)))

\* an HTTP handler that never waits may run whenever the request being
\* served waits
BetweenSteps == run.kind # "twoPhase"

\* POST clear_history
clearHistory ==
  /\ BetweenSteps
  /\ hp' = clearedProcessor
  /\ qm' = resetQuota(qm)
  /\ resetDailyQuota
  /\ UNCHANGED run

\* every cell id the service has handed out, and one that is not a cell
AllCells == ValidCells \cup {BadCell}

\* the count test_subdivision simulates
SimulatedCount == 300

\* POST test_subdivision
testSubdivision ==
  /\ BetweenSteps
  /\ \E h \in AllCells : hp' = handleDenseHexagons(hp, h, SimulatedCount, 7).hp
  /\ UNCHANGED <<gateVars, qm, run>>

\* POST test_coverage
testCoverage ==
  /\ BetweenSteps
  /\ \E h \in AllCells : hp' = processHexagonWithCoverage(hp, h, 7, NoYelp).hp
  /\ UNCHANGED <<gateVars, qm, run>>

\* --------------------------------------------- processTwoPhaseAlgorithm

\* a call of processTwoPhaseAlgorithm(hexagons); it never waits, so no HTTP
\* handler runs before it returns.  dense is the set of input cells for
\* which a search reports more than 240 businesses
processTwoPhaseAlgorithm ==
  /\ run.pc = "idle"
  /\ \E hexagons \in Inputs : \E dense \in SUBSET Tops :
       run' = [IdleRun("none", TRUE) EXCEPT
                 !.pc = "phase1", !.kind = "twoPhase", !.hexagons = hexagons,
                 !.phase = 1, !.i = 1, !.dense = dense]
  /\ UNCHANGED <<gateVars, hp, qm>>

\* phase1Results.push(result)
pushUnlessFailed(results, rec) ==
  IF rec.status = "failed" THEN results ELSE Append(results, rec)
pushResult(results, rec) == Append(results, rec)

\* one turn of its Phase 1 loop
twoPhaseCell ==
  /\ run.pc = "phase1"
  /\ run.i <= Len(run.hexagons)
  /\ LET h == run.hexagons[run.i]
         out == processHexagonWithCoverage(hp, h, 7, NoYelp)
         res == out.result
     IN /\ hp' = IF res.needsSubdivision /\ res.totalBusinesses > 240
                 THEN handleDenseHexagons(out.hp, h, res.totalBusinesses, 7).hp
                 ELSE out.hp
        /\ run' = [run EXCEPT !.i = @ + 1, !.terminal = @ \cup {run.i},
                               !.phase1Results = pushResult(@, res)]
  /\ UNCHANGED <<gateVars, qm>>

\* the loop is over: Phase 2 begins
twoPhaseBeginsPhase2 ==
  /\ run.pc = "phase1"
  /\ run.i > Len(run.hexagons)
  /\ run' = [run EXCEPT !.pc = "phase2", !.phase = 2,
                         !.phase1Complete = allTerminal(hp, run)]
  /\ UNCHANGED <<gateVars, hp, qm>>

\* allResults.filter(r => r.status === 'fetched' || r.status === 'split')
successfulResults(allResults) ==
  SelectSeq(allResults, LAMBDA r : r.status = "fetched" \/ r.status = "split")

RECURSIVE sumBusinesses(_)
\* allResults.reduce((sum, r) => sum + (r.totalBusinesses || 0), 0)
sumBusinesses(allResults) ==
  IF allResults = <<>> THEN 0
  ELSE (IF Head(allResults).totalBusinesses = Undefined
        THEN 0 ELSE Head(allResults).totalBusinesses)
       + sumBusinesses(Tail(allResults))

\* the overall coverage quality: s successful results of n; s > n * 0.8 and
\* s > n * 0.6 are compared in tenths
qualityAtLeast(s, n) ==
  IF s = n THEN "excellent"
  ELSE IF 10 * s >= 8 * n THEN "good"
  ELSE IF 10 * s >= 6 * n THEN "fair"
  ELSE "poor"
coverageQuality(s, n) ==
  IF s = n THEN "excellent"
  ELSE IF 10 * s > 8 * n THEN "good"
  ELSE IF 10 * s > 6 * n THEN "fair"
  ELSE "poor"

\* the final statistics of processTwoPhaseAlgorithm
finalStats(allResults) ==
  [totalProcessed |-> Len(successfulResults(allResults)),
   totalSplit |-> Len(SelectSeq(allResults, LAMBDA r : r.status = "split")),
   totalBusinesses |-> sumBusinesses(allResults),
   coverageQuality |-> coverageQuality(Len(successfulResults(allResults)),
                                       Len(allResults))]

\* Phase 2: processSubdivisionQueue, the statistics, the return
twoPhaseReturns ==
  /\ run.pc = "phase2"
  /\ LET out == processSubdivisionQueue(hp, qm)
     IN /\ hp' = out.hp /\ qm' = out.qm
        /\ run' = [IdleRun("ok", run.phase1Complete) EXCEPT
                     !.finalStats = finalStats(run.phase1Results \o out.results)]
  /\ UNCHANGED gateVars

\* ---------------------------------------------------------------- SpecPipe

\* no library call is in progress
NoCall == [fn |-> "none"]

\* the three singletons as the modules construct them, nothing in progress
InitServices ==
  /\ hp = clearedProcessor
  /\ qm = [dailyUsage |-> 0, currentSecondUsage |-> 0,
           dailyLimit |-> PipeDailyLimit, perSecondLimit |-> YelpPerSecond]
  /\ run = IdleRun("none", TRUE)
  /\ call = NoCall

InitPipe == InitLimiter(YelpPerSecond, PipeDailyLimit) /\ InitServices

\* pipeline runs one after the other, within one window of the limiter (no
\* timer fires)
NextPipe ==
  \/ \E hexagons \in Inputs : \E testMode \in BOOLEAN :
       processHexagons(hexagons, testMode) /\ UNCHANGED call
  \/ FirstPageReturns /\ UNCHANGED call
  \/ NextPageReturns /\ UNCHANGED call
  \/ PauseEnds /\ UNCHANGED call
  \/ processTwoPhaseAlgorithm /\ UNCHANGED call
  \/ twoPhaseCell /\ UNCHANGED call
  \/ twoPhaseBeginsPhase2 /\ UNCHANGED call
  \/ twoPhaseReturns /\ UNCHANGED call

SpecPipe == InitPipe /\ [][NextPipe]_vars

\* ---------------------------------------------------------------- SpecProc

\* the processor under the handlers that call it directly and under
\* processTwoPhaseAlgorithm
NextProc ==
  \/ testSubdivision /\ UNCHANGED call
  \/ testCoverage /\ UNCHANGED call
  \/ clearHistory /\ UNCHANGED call
  \/ processTwoPhaseAlgorithm /\ UNCHANGED call
  \/ twoPhaseCell /\ UNCHANGED call
  \/ twoPhaseBeginsPhase2 /\ UNCHANGED call
  \/ twoPhaseReturns /\ UNCHANGED call

SpecProc == InitPipe /\ [][NextProc]_vars

\* ------------------------------------------------------------ SpecTwoPhase

\* calls of processTwoPhaseAlgorithm one after the other, nothing else
NextTwoPhase ==
  \/ processTwoPhaseAlgorithm /\ UNCHANGED call
  \/ twoPhaseCell /\ UNCHANGED call
  \/ twoPhaseBeginsPhase2 /\ UNCHANGED call
  \/ twoPhaseReturns /\ UNCHANGED call

SpecTwoPhase == InitPipe /\ [][NextTwoPhase]_vars

\* ---------------------------------------------------------------- SpecGate

\* the limiter alone, with scaled-down limits, under arbitrary callers
InitGate == InitLimiter(GateMaxPerSecond, GateMaxPerDay) /\ InitServices

NextGate ==
  \/ CallerArrives /\ UNCHANGED <<pipeVars, call>>
  \/ ProcessQueueResume /\ UNCHANGED <<pipeVars, call>>
  \/ RetryTimerFires /\ UNCHANGED <<pipeVars, call>>
  \/ resetPerSecondCounter /\ UNCHANGED <<pipeVars, call>>
  \/ resetDailyCounter /\ UNCHANGED <<pipeVars, call>>
  \/ resetDailyQuota /\ UNCHANGED <<pipeVars, call>>
  \/ Tick /\ UNCHANGED <<pipeVars, call>>

SpecGate == InitGate /\ [][NextGate]_vars

\* ------------------------------------------------------------ SpecGateLive

\* the callers waiting in requestQueue
Waiting == {requestQueue[i] : i \in 1..Len(requestQueue)}

\* a caller that has been admitted before calls waitForSlot again, as
\* searchAllPoints does for every probe and searchPointWithPagination for
\* every page; the calls that find a free slot are the ones followed here
\* (a call that is queued arms one more retry timer, without bound)
CallerReturns ==
  /\ canMakeRequest(dailyCalls, perSecondCalls)
  /\ \E c \in admitted \ Waiting : waitForSlot(c)
  /\ UNCHANGED <<maxPerSecond, maxPerDay, secTimer, dayTimer, nextCaller,
                 dailyResetSeen>>

\* the limiter under callers that keep calling it
NextGateLive ==
  \/ CallerArrives /\ UNCHANGED <<pipeVars, call>>
  \/ CallerReturns /\ UNCHANGED <<pipeVars, call>>
  \/ ProcessQueueResume /\ UNCHANGED <<pipeVars, call>>
  \/ RetryTimerFires /\ UNCHANGED <<pipeVars, call>>
  \/ resetPerSecondCounter /\ UNCHANGED <<pipeVars, call>>
  \/ resetDailyCounter /\ UNCHANGED <<pipeVars, call>>
  \/ Tick /\ UNCHANGED <<pipeVars, call>>

\* time passes, every timer that is due fires (the two setInterval timers
\* and the setTimeout retries), and a processQueue loop that pauses resumes;
\* nothing is assumed about when callers call
FairGate ==
  /\ WF_vars(Tick /\ UNCHANGED <<pipeVars, call>>)
  /\ WF_vars(resetPerSecondCounter /\ UNCHANGED <<pipeVars, call>>)
  /\ WF_vars(resetDailyCounter /\ UNCHANGED <<pipeVars, call>>)
  /\ WF_vars(RetryTimerFires /\ UNCHANGED <<pipeVars, call>>)
  /\ WF_vars(ProcessQueueResume /\ UNCHANGED <<pipeVars, call>>)

SpecGateLive == InitGate /\ [][NextGateLive]_vars /\ FairGate

\* --------------------------------------------------------------- SpecClear

\* the limiter under arbitrary callers, and clear_history requests that
\* arrive while callers use it
NextClear ==
  \/ CallerArrives /\ UNCHANGED <<pipeVars, call>>
  \/ ProcessQueueResume /\ UNCHANGED <<pipeVars, call>>
  \/ RetryTimerFires /\ UNCHANGED <<pipeVars, call>>
  \/ resetPerSecondCounter /\ UNCHANGED <<pipeVars, call>>
  \/ resetDailyCounter /\ UNCHANGED <<pipeVars, call>>
  \/ Tick /\ UNCHANGED <<pipeVars, call>>
  \/ clearHistory /\ UNCHANGED call

SpecClear == InitGate /\ [][NextClear]_vars

\* ------------------------------------------------------ library calls

\* all sequences over S of length at most n
SeqsUpTo(S, n) == UNION {[1..k -> S] : k \in 0..n}

\* a business: its id and the rest of its data (two businesses may carry
\* the same id)
Businesses == [id : 1..NumIds, name : {"a", "b"}]

RECURSIVE addKeepLast(_, _)
\* the same loop without its has() test: a later business replaces the one
\* stored under its id
addKeepLast(out, rest) ==
  IF rest = <<>> THEN out
  ELSE addKeepLast(IF \E i \in 1..Len(out) : out[i].id = Head(rest).id
                   THEN [i \in 1..Len(out) |->
                           IF out[i].id = Head(rest).id THEN Head(rest) ELSE out[i]]
                   ELSE Append(out, Head(rest)),
                   Tail(rest))

RECURSIVE addUnique(_, _)
\* the loop `if (!seen.has(b.id)) { seen.add(b.id); out.push(b) }` over rest
addUnique(out, rest) ==
  IF rest = <<>> THEN out
  ELSE addUnique(IF \E i \in 1..Len(out) : out[i].id = Head(rest).id
                 THEN out ELSE Append(out, Head(rest)),
                 Tail(rest))

\* deduplicateBusinesses: the values of a Map filled in list order
deduplicateBusinesses(businesses) == addUnique(<<>>, businesses)

RECURSIVE mergeLoop(_, _)
\* the for loop of mergeSubHexagonResults over splitResults
mergeLoop(acc, rest) ==
  IF rest = <<>> THEN acc
  ELSE LET result == Head(rest)
           status == IF result.total > 240 THEN "dense" ELSE "fetched"
       IN mergeLoop(
            [totalBusinesses |-> acc.totalBusinesses + result.total,
             subHexagonStatus |-> Append(acc.subHexagonStatus,
                [h3Id |-> result.h3Id, status |-> status, total |-> result.total]),
             uniqueBusinesses |-> addUnique(acc.uniqueBusinesses, result.businesses)],
            Tail(rest))

\* mergeSubHexagonResults
mergeSubHexagonResults(splitResults) ==
  LET acc == mergeLoop([totalBusinesses |-> 0, subHexagonStatus |-> <<>>,
                        uniqueBusinesses |-> <<>>], splitResults)
      s0 == "complete"
      s1 == IF \E i \in 1..Len(splitResults) : splitResults[i].total > 240
            THEN "partial-dense" ELSE s0
      s2 == IF \E i \in 1..Len(splitResults) : splitResults[i].total = 0
            THEN "partial-empty" ELSE s1
  IN [totalBusinesses |-> acc.totalBusinesses,
      uniqueBusinesses |-> acc.uniqueBusinesses,
      coverageStatus |-> s2,
      subHexagonStatus |-> acc.subHexagonStatus]

\* the totals a child result may report
MergeTotals == {0, 50, DenseThreshold, DenseThreshold + 1, SimulatedCount}

\* the lists of child results given to mergeSubHexagonResults: children that
\* report a total and no business, and children that report the businesses
\* they list
MergeInputs ==
  {[k \in DOMAIN t |-> [h3Id |-> k, businesses |-> <<>>, total |-> t[k]]] :
      t \in SeqsUpTo(MergeTotals, MaxBareChildren)}
  \cup
  {[k \in DOMAIN l |-> [h3Id |-> k, businesses |-> l[k], total |-> Len(l[k])]] :
      l \in SeqsUpTo(SeqsUpTo(Businesses, MaxChildItems), MaxChildren)}

\* a call mergeSubHexagonResults(parent, splitResults)
callMerge ==
  /\ call = NoCall
  /\ \E splitResults \in MergeInputs :
       call' = [fn |-> "mergeSubHexagonResults", args |-> splitResults,
                result |-> mergeSubHexagonResults(splitResults)]
  /\ UNCHANGED <<gateVars, pipeVars>>

\* a call deduplicateBusinesses(businesses)
callDedup ==
  /\ call = NoCall
  /\ \E businesses \in SeqsUpTo(Businesses, MaxItems) :
       call' = [fn |-> "deduplicateBusinesses", args |-> businesses,
                result |-> deduplicateBusinesses(businesses)]
  /\ UNCHANGED <<gateVars, pipeVars>>

\* the business counts given to the density decisions
DensityCounts ==
  {0} \cup (DenseThreshold - CountSpan)..(DenseThreshold + CountSpan)

\* a call detectDenseHexagon(total)
callDetectDense ==
  /\ call = NoCall
  /\ \E total \in DensityCounts :
       call' = [fn |-> "detectDenseHexagon", args |-> total,
                result |-> detectDenseHexagon(total)]
  /\ UNCHANGED <<gateVars, pipeVars>>

\* the processors a library call is made on: a new HexagonProcessor(), or
\* one that has processed a cell once
Instances ==
  {clearedProcessor} \cup
  {processHexagonWithCoverage(clearedProcessor, h, 7, NoYelp).hp : h \in InputCells}

\* a call p.processHexagonWithCoverage(h3Id, 7, yelpResult) with the result
\* of a search that did not fail, on a processor p of its own
callProcessHexagon ==
  /\ call = NoCall
  /\ \E p \in Instances : \E h \in InputCells : \E total \in DensityCounts :
       LET out == processHexagonWithCoverage(p, h, 7,
                    [given |-> TRUE, totalBusinesses |-> total,
                     status |-> IF detectDenseHexagon(total)
                                THEN "split" ELSE "fetched",
                     allProbesFailed |-> FALSE, error |-> "none"])
       IN call' = [fn |-> "processHexagonWithCoverage",
                   args |-> [h3Id |-> h, totalBusinesses |-> total],
                   result |-> out.result, processor |-> out.hp]
  /\ UNCHANGED <<gateVars, pipeVars>>

\* a call p.detectAndHandleSubdivision(h3Id, total, 7) on a processor p of
\* its own
callDetectAndHandle ==
  /\ call = NoCall
  /\ \E p \in Instances : \E h \in InputCells : \E total \in DensityCounts :
       LET out == detectAndHandleSubdivision(p, h, total, 7)
       IN call' = [fn |-> "detectAndHandleSubdivision",
                   args |-> [h3Id |-> h, totalBusinesses |-> total],
                   result |-> out.result, processor |-> out.hp]
  /\ UNCHANGED <<gateVars, pipeVars>>

\* the resolutions a caller passes to a split: from the pipeline's own
\* resolution to one past the highest validateSplitConfiguration accepts
DefaultResolution == 7
SplitResolutions == DefaultResolution..(MaxSplitResolution + 1)

\* a call splitHexagon(h3Id, currentResolution, targetResolution)
callSplit ==
  /\ call = NoCall
  /\ \E h \in InputCells : \E cur, target \in SplitResolutions :
       call' = [fn |-> "splitHexagon",
                args |-> [h3Id |-> h, currentResolution |-> cur,
                          targetResolution |-> target],
                result |-> splitHexagon(h, cur, target)]
  /\ UNCHANGED <<gateVars, pipeVars>>

\* a call p.handleDenseHexagons(h3Id, total, currentResolution) for a dense
\* cell, on a processor p of its own
callHandleDense ==
  /\ call = NoCall
  /\ \E p \in Instances : \E h \in InputCells : \E cur \in SplitResolutions :
       LET out == handleDenseHexagons(p, h, SimulatedCount, cur)
       IN call' = [fn |-> "handleDenseHexagons",
                   args |-> [h3Id |-> h, currentResolution |-> cur, before |-> p],
                   result |-> out.result, processor |-> out.hp]
  /\ UNCHANGED <<gateVars, pipeVars>>

\* a call q.estimateQuotaForCity(hexagonCount, points, pages) on a quota
\* manager q = new APIQuotaManager(EstDailyLimit) that has tracked used
\* calls; pages is 1 or the default 1.5, points 1 or the default 7
callEstimate ==
  /\ call = NoCall
  /\ \E used \in 0..EstDailyLimit : \E hexagonCount \in 0..MaxEstHexagons :
     \E points \in {1, 7} : \E pagesTimes2 \in {2, 3} :
       LET q == [dailyUsage |-> used, currentSecondUsage |-> 0,
                 dailyLimit |-> EstDailyLimit, perSecondLimit |-> YelpPerSecond]
       IN call' = [fn |-> "estimateQuotaForCity",
                   args |-> [hexagonCount |-> hexagonCount, points |-> points,
                             pagesTimes2 |-> pagesTimes2],
                   result |-> estimateQuotaForCity(q, hexagonCount, points,
                                                   pagesTimes2)]
  /\ UNCHANGED <<gateVars, pipeVars>>

\* where a business is: inside a resolution-8 cell of the grid, somewhere
\* outside the grid kept here, or nowhere (it carries no usable coordinates)
Elsewhere == 0 - 3
NoCoordinates == 0 - 4
Locations == {ChildId(1, 1), ChildId(1, 2), Elsewhere, NoCoordinates}

\* a business with its coordinates
LocatedBusinesses == [id : 1..NumIds, at : Locations]

\* the parent of a resolution-8 cell
ParentOf(c) == ((c - NumTop - 1) \div Branch) + 1

\* h3.latLngToCell(lat, lng, res) for coordinates h3 accepts
latLngToCell(at, res) ==
  IF at = Elsewhere THEN Elsewhere
  ELSE IF res = 8 THEN at
  ELSE IF res = 7 THEN ParentOf(at)
  ELSE CoarseCell

\* the lookup of validateBusinessBoundaries throws: the business has no
\* coordinates, or h3.getResolution rejects the id of the cell
lookupThrows(h, business) == business.at = NoCoordinates \/ h \notin KnownCells

RECURSIVE validateFailClosed(_, _)
RECURSIVE validateBusinessBoundaries(_, _)
\* validateBusinessBoundaries: the for loop over the businesses
validateFailClosed(h, businesses) ==
  IF businesses = <<>> THEN <<>>
  ELSE LET b == Head(businesses)
           rest == validateFailClosed(h, Tail(businesses))
       IN IF lookupThrows(h, b) THEN rest
          ELSE IF latLngToCell(b.at, getResolution(h)) = h THEN <<b>> \o rest
          ELSE rest
validateBusinessBoundaries(h, businesses) ==
  IF businesses = <<>> THEN <<>>
  ELSE LET b == Head(businesses)
           rest == validateBusinessBoundaries(h, Tail(businesses))
       IN IF lookupThrows(h, b) THEN <<b>> \o rest
          ELSE IF latLngToCell(b.at, getResolution(h)) = h THEN <<b>> \o rest
          ELSE rest

RECURSIVE flatMapBusinesses(_)
\* searchResults.flatMap(r => r.businesses)
firstProbeOnly(searchResults) ==
  IF searchResults = <<>> THEN <<>> ELSE Head(searchResults)
flatMapBusinesses(searchResults) ==
  IF searchResults = <<>> THEN <<>>
  ELSE Head(searchResults) \o flatMapBusinesses(Tail(searchResults))

\* processSearchResults: the uniqueBusinesses of the result it returns, split
\* or fetched, for the probe results of a cell
uniqueOfFirstProbe(h, searchResults) ==
  deduplicateBusinesses(
    validateBusinessBoundaries(h, firstProbeOnly(searchResults)))
uniqueBusinesses(h, searchResults) ==
  deduplicateBusinesses(
    validateBusinessBoundaries(h, flatMapBusinesses(searchResults)))

\* the cells a library call is given
LibCells == {1, ChildId(1, 1), CoarseCell, BadCell}

\* a call generateSearchPoints(h3Id); it throws or returns a coverage
callGenerateSearchPoints ==
  /\ call = NoCall
  /\ \E h \in LibCells :
       call' = [fn |-> "generateSearchPoints", args |-> [h3Id |-> h],
                result |-> generateSearchPoints(h)]
  /\ UNCHANGED <<gateVars, pipeVars>>

\* the call generateAdaptiveSearchPoints(center, boundary, radius, area) that
\* generateSearchPoints makes, for a cell of any shape and area (whole km2)
callAdaptive ==
  /\ call = NoCall
  /\ \E boundary \in {HexagonBoundary, PentagonBoundary} : \E area \in 0..MaxArea :
       call' = [fn |-> "generateAdaptiveSearchPoints",
                args |-> [boundary |-> boundary, area |-> area],
                result |-> generateAdaptiveSearchPoints(boundary, area)]
  /\ UNCHANGED <<gateVars, pipeVars>>

\* the probe lists a caller may hand to validateCoverage
ProbeTypes == {"primary", "corner", "edge"}
Plans == SeqsUpTo({Probe(t, <<>>) : t \in ProbeTypes}, MaxPlan)

\* a call validateCoverage(hexagonCoverage)
callValidateCoverage ==
  /\ call = NoCall
  /\ \E h \in LibCells : \E pts \in Plans :
       call' = [fn |-> "validateCoverage",
                args |-> [h3Id |-> h, searchPoints |-> pts],
                result |-> validateCoverage([h3Id |-> h, searchPoints |-> pts])]
  /\ UNCHANGED <<gateVars, pipeVars>>

\* a call validateBusinessBoundaries(h3Id, businesses)
callValidateBoundaries ==
  /\ call = NoCall
  /\ \E h \in LibCells : \E businesses \in SeqsUpTo(LocatedBusinesses, MaxItems) :
       call' = [fn |-> "validateBusinessBoundaries",
                args |-> [h3Id |-> h, businesses |-> businesses],
                result |-> validateBusinessBoundaries(h, businesses)]
  /\ UNCHANGED <<gateVars, pipeVars>>

\* what the two probes of a cell return: at most one business each
TwoProbeResults ==
  {<<a, b>> : a, b \in SeqsUpTo(LocatedBusinesses, 1)}

\* two cells of the same resolution processed in one run
SiblingPairs ==
  {<<ChildId(1, 1), ChildId(1, 2)>>, <<ChildId(1, 2), ChildId(1, 1)>>}

\* the results of one run for two sibling cells A and B: processSearchResults
\* on the probe results of each, both pushed to the results of the run
callSearchSiblings ==
  /\ call = NoCall
  /\ \E pair \in SiblingPairs : \E ra, rb \in TwoProbeResults :
       call' = [fn |-> "processSearchResults",
                args |-> [A |-> pair[1], B |-> pair[2],
                          searchResultsA |-> ra, searchResultsB |-> rb],
                result |-> <<[h3Id |-> pair[1],
                              uniqueBusinesses |-> uniqueBusinesses(pair[1], ra)],
                             [h3Id |-> pair[2],
                              uniqueBusinesses |-> uniqueBusinesses(pair[2], rb)]>>]
  /\ UNCHANGED <<gateVars, pipeVars>>

\* the records processTwoPhaseAlgorithm collects, by their status
ResultRecords ==
  {Status(1, 7, "fetched", 1, FALSE, Undefined, <<>>, "none"),
   Status(1, 7, "split", DenseThreshold + 1, TRUE, Undefined, <<>>, "none"),
   Status(1, 7, "failed", Undefined, FALSE, Undefined, <<>>, "Error")}

\* the final statistics processTwoPhaseAlgorithm computes from the results
\* of its two phases
callFinalStats ==
  /\ call = NoCall
  /\ \E allResults \in SeqsUpTo(ResultRecords, MaxResults) :
       call' = [fn |-> "finalStats", args |-> allResults,
                result |-> finalStats(allResults)]
  /\ UNCHANGED <<gateVars, pipeVars>>

\* ---------------------------------------------------- retryFailedHexagons

\* processWithRetry(() => processHexagonWithCoverage(h3Id, resolution),
\* maxRetries, 2000): the operation returns a record on each of its paths
\* (its catch block returns the failed record), so the first attempt, if
\* there is one, is the one whose value is returned; with no attempt the
\* unassigned lastError is thrown
retryOperation(p, h, res, maxRetries) ==
  IF 1 <= maxRetries
  THEN LET out == processHexagonWithCoverage(p, h, res, NoYelp)
       IN [threw |-> FALSE, hp |-> out.hp, result |-> out.result, invoked |-> 1]
  ELSE [threw |-> TRUE, hp |-> p,
        result |-> Status(h, res, "failed", Undefined, FALSE, Undefined, <<>>, TRUE),
        invoked |-> 0]

RECURSIVE retryEach(_, _, _, _, _)
\* the for loop of retryFailedHexagons over the records that were in
\* failedHexagons at the start (failed); todo are the ids still to retry.
\* acc counts the outcomes and notes, per cell, how often the operation
\* was invoked and how the retry ended
retryEach(p, failed, todo, maxRetries, acc) ==
  IF todo = {} THEN [hp |-> p, acc |-> acc]
  ELSE LET h == CHOOSE x \in todo : TRUE
           failedHex == failed[h]
           p1 == [p EXCEPT !.failedHexagons =
                    [x \in DOMAIN @ \ {h} |-> @[x]]]
           out == retryOperation(p1, h, failedHex.resolution, maxRetries)
       IN IF ~out.threw /\ out.result.status \in {"fetched", "split"}
          THEN retryEach(
                 [out.hp EXCEPT !.completedHexagons = MapSet(@, h, out.result)],
                 failed, todo \ {h}, maxRetries,
                 [acc EXCEPT !.successCount = @ + 1,
                             !.succeeded = @ \cup {h},
                             !.attempts = MapSet(@, h, out.invoked)])
          ELSE retryEach(
                 [out.hp EXCEPT !.failedHexagons =
                    MapSet(@, h, IF out.threw THEN failedHex ELSE out.result)],
                 failed, todo \ {h}, maxRetries,
                 [acc EXCEPT !.stillFailedCount = @ + 1,
                             !.stillFailed = @ \cup {h},
                             !.attempts = MapSet(@, h, out.invoked)])

\* retryFailedHexagons(maxRetries)
retryFailedHexagons(p, maxRetries) ==
  LET failed == p.failedHexagons
      none == [successCount |-> 0, stillFailedCount |-> 0,
               succeeded |-> {}, stillFailed |-> {}, attempts |-> EmptyMap]
      out == IF DOMAIN failed = {} THEN [hp |-> p, acc |-> none]
             ELSE retryEach(p, failed, DOMAIN failed, maxRetries, none)
  IN [hp |-> out.hp,
      result |-> [retriedCount |-> Cardinality(DOMAIN failed),
                  successCount |-> out.acc.successCount,
                  stillFailedCount |-> out.acc.stillFailedCount],
      succeeded |-> out.acc.succeeded,
      stillFailed |-> out.acc.stillFailed,
      attempts |-> out.acc.attempts]

\* one more failure on a processor: a cell h3 rejects is processed, or
\* handleDenseHexagons is called for a cell that is not dense
failOnce(p) ==
  {processHexagonWithCoverage(p, BadCell, DefaultResolution, NoYelp).hp} \cup
  {handleDenseHexagons(p, h, DenseThreshold, DefaultResolution).hp : h \in Tops}

\* the processors retryFailedHexagons is called on: up to two failures, or
\* none, after a new HexagonProcessor()
FailedInstances ==
  {clearedProcessor} \cup failOnce(clearedProcessor) \cup
  UNION {failOnce(p) : p \in failOnce(clearedProcessor)}

\* a call p.retryFailedHexagons(maxRetries) on a processor p of its own
callRetryFailed ==
  /\ call = NoCall
  /\ \E p \in FailedInstances : \E m \in 0..MaxRetries :
       LET out == retryFailedHexagons(p, m)
       IN call' = [fn |-> "retryFailedHexagons",
                   args |-> [maxRetries |-> m, before |-> p],
                   result |-> out.result, processor |-> out.hp,
                   succeeded |-> out.succeeded,
                   stillFailed |-> out.stillFailed,
                   attempts |-> out.attempts]
  /\ UNCHANGED <<gateVars, pipeVars>>

\* ----------------------------------------------------------------- SpecLib

\* the caller has read what the call returned
callReturns ==
  /\ call # NoCall
  /\ call' = NoCall
  /\ UNCHANGED <<gateVars, pipeVars>>

\* the library functions called one after the other on arbitrary arguments
NextLib ==
  \/ callMerge
  \/ callDedup
  \/ callDetectDense
  \/ callProcessHexagon
  \/ callDetectAndHandle
  \/ callSplit
  \/ callHandleDense
  \/ callEstimate
  \/ callGenerateSearchPoints
  \/ callAdaptive
  \/ callValidateCoverage
  \/ callValidateBoundaries
  \/ callSearchSiblings
  \/ callFinalStats
  \/ callRetryFailed
  \/ callReturns

SpecLib == InitPipe /\ [][NextLib]_vars

\* -------------------------------------------------------- processWithRetry

\* what one invocation of the operation settles to: a value, a thrown Error,
\* or a thrown value that is not an Error
Outcomes ==
  {[kind |-> "value", value |-> v, isError |-> FALSE] : v \in 1..2} \cup
  {[kind |-> "throw", value |-> 1, isError |-> TRUE],
   [kind |-> "throw", value |-> 2, isError |-> TRUE],
   [kind |-> "throw", value |-> 3, isError |-> FALSE]}

\* lastError before the first catch (a declared, unassigned variable)
NoError == [kind |-> "undefined", value |-> 0, isError |-> FALSE]

\* error instanceof Error ? error : new Error(String(error))
asError(o) == [kind |-> "throw", value |-> o.value, isError |-> TRUE]

\* the test left out: the delay is taken after every failed attempt
neverLastAttempt(attempt, maxRetries) == FALSE
\* if (attempt === maxRetries)
isLastAttempt(attempt, maxRetries) == attempt = maxRetries

\* the head of the for loop: the next attempt invokes the operation, or the
\* loop is left and lastError is thrown
withRetryLoop(c) ==
  IF c.attempt <= c.args.maxRetries
  THEN [c EXCEPT !.pc = "operation", !.invoked = @ + 1]
  ELSE [c EXCEPT !.pc = "thrown", !.result = c.lastError]

\* the operation has settled to o: return its value, or the catch block
withRetrySettled(c, o) ==
  LET d == [c EXCEPT !.outcomes = Append(@, o)]
  IN IF o.kind = "value"
     THEN [d EXCEPT !.pc = "returned", !.result = o]
     ELSE IF isLastAttempt(c.attempt, c.args.maxRetries)
     THEN [d EXCEPT !.lastError = asError(o), !.pc = "thrown",
                    !.result = asError(o)]
     ELSE [d EXCEPT !.lastError = asError(o), !.pc = "delay",
                    !.waits = Append(@, c.attempt)]

\* a call processWithRetry(operation, maxRetries, baseDelay)
withRetryStarts ==
  /\ call = NoCall
  /\ \E m \in 0..MaxRetries :
       call' = withRetryLoop(
                 [fn |-> "processWithRetry", args |-> [maxRetries |-> m],
                  pc |-> "loop", attempt |-> 1, invoked |-> 0,
                  outcomes |-> <<>>, waits |-> <<>>,
                  lastError |-> NoError, result |-> NoError])
  /\ UNCHANGED <<gateVars, pipeVars>>

\* await operation() settles
operationSettles ==
  /\ call # NoCall /\ call.fn = "processWithRetry" /\ call.pc = "operation"
  /\ \E o \in Outcomes : call' = withRetrySettled(call, o)
  /\ UNCHANGED <<gateVars, pipeVars>>

\* the setTimeout of the backoff delay fires: attempt++ and the loop test
delayEnds ==
  /\ call # NoCall /\ call.fn = "processWithRetry" /\ call.pc = "delay"
  /\ call' = withRetryLoop([call EXCEPT !.attempt = @ + 1])
  /\ UNCHANGED <<gateVars, pipeVars>>

\* the caller has the value or the error
withRetryReturns ==
  /\ call # NoCall /\ call.fn = "processWithRetry"
  /\ call.pc \in {"returned", "thrown"}
  /\ call' = NoCall
  /\ UNCHANGED <<gateVars, pipeVars>>

NextRetry ==
  \/ withRetryStarts
  \/ operationSettles
  \/ delayEnds
  \/ withRetryReturns

\* the operation's promise settles and the delay timer fires
FairRetry == WF_vars(operationSettles) /\ WF_vars(delayEnds)

SpecRetry == InitPipe /\ [][NextRetry]_vars /\ FairRetry

\* --------------------------------------------------------------- SpecObject

\* hexagonProcessor.detectAndHandleSubdivision(h3Id, totalBusinesses) for a
\* submitted cell with the largest count that is not dense (with a dense
\* count the call is that of handleDenseHexagons)
detectAndHandleCalled ==
  /\ BetweenSteps
  /\ \E h \in InputCells :
       hp' = detectAndHandleSubdivision(hp, h, DenseThreshold, DefaultResolution).hp
  /\ UNCHANGED <<gateVars, qm, run>>

\* hexagonProcessor.retryFailedHexagons(maxRetries)
retryFailedCalled ==
  /\ BetweenSteps
  /\ \E m \in 0..MaxRetries : hp' = retryFailedHexagons(hp, m).hp
  /\ UNCHANGED <<gateVars, qm, run>>

\* hexagonProcessor.processSubdivisionQueue()
subdivisionQueueCalled ==
  /\ BetweenSteps
  /\ LET out == processSubdivisionQueue(hp, qm)
     IN hp' = out.hp /\ qm' = out.qm
  /\ UNCHANGED <<gateVars, run>>

\* the exported hexagonProcessor under calls of its public methods, one
\* after the other: those the handlers of route.ts make and those no
\* handler makes
NextObject ==
  \/ testCoverage /\ UNCHANGED call
  \/ testSubdivision /\ UNCHANGED call
  \/ detectAndHandleCalled /\ UNCHANGED call
  \/ retryFailedCalled /\ UNCHANGED call
  \/ subdivisionQueueCalled /\ UNCHANGED call
  \/ clearHistory /\ UNCHANGED call

SpecObject == InitPipe /\ [][NextObject]_vars

\* ------------------------------------------------------------------ claims

\* callers that have arrived so far
Arrived == 1..(nextCaller - 1)

QueuedCallers == {requestQueue[i] : i \in 1..Len(requestQueue)}

\* C1: the limiter never admits over budget: in every reachable state
\* dailyCalls <= maxPerDay and perSecondCalls <= maxPerSecond; and as long as
\* the daily counter has not been reset, the callers admitted are at most the
\* daily budget the limiter started with, every caller that arrived is either
\* admitted or still waiting in requestQueue (never both), and once the
\* budget is used up exactly `remaining` callers are admitted and all the
\* others are waiting, not admitted.
C1_NeverOverBudget ==
  /\ dailyCalls <= maxPerDay
  /\ perSecondCalls <= maxPerSecond
  /\ ~dailyResetSeen =>
       /\ Cardinality(admitted) = dailyCalls
       /\ Cardinality(admitted) <= maxPerDay
       /\ admitted \cup QueuedCallers = Arrived
       /\ admitted \cap QueuedCallers = {}
       /\ dailyCalls = maxPerDay =>
            Len(requestQueue) = Cardinality(Arrived) - maxPerDay

\* C1 witness: more callers arrived than the daily budget, no daily reset,
\* exactly maxPerDay of them are admitted and the others wait
C1_Witness ==
  /\ ~dailyResetSeen
  /\ Cardinality(Arrived) > maxPerDay
  /\ Cardinality(admitted) = maxPerDay
  /\ Len(requestQueue) = Cardinality(Arrived) - maxPerDay
  /\ Len(requestQueue) > 0

\* C2: at most maxPerSecond admissions in any rolling one-second window:
\* windowLog holds the admissions of each of the last TicksPerSec ticks
C2_RollingWindow == SumSeq(windowLog) <= maxPerSecond

\* C3: admission is strictly FIFO: no admitted caller arrived after a caller
\* that is still waiting in requestQueue (callers are numbered by arrival)
C3_StrictFIFO ==
  \A a \in admitted : \A q \in QueuedCallers : a < q

\* ------------------------------------------------------- pipeline claims

Range(f) == {f[x] : x \in DOMAIN f}

\* every record the processor stores, whatever the map
StoredRecords ==
  Range(hp.processingQueue) \cup Range(hp.completedHexagons)
    \cup Range(hp.failedHexagons) \cup Range(hp.subdivisionQueue)

\* C4: the quota manager's daily usage stays between 0 and its daily limit,
\* so the remaining daily quota it reports is never negative.
C4_QuotaBudget ==
  /\ 0 <= qm.dailyUsage
  /\ qm.dailyUsage <= qm.dailyLimit
  /\ dailyRemaining(qm) >= 0

\* C5: when Phase 2 of a pipeline run begins (processSubdivisionQueue is
\* called), every input cell of the run has been processed by Phase 1 and is
\* in a terminal state, and it still is while Phase 2 works on the children.
C5_PhaseOrdering ==
  /\ run.phase1Complete
  /\ run.phase = 2 => allTerminal(hp, run)

C5_Witness ==
  /\ run.kind = "route"
  /\ run.phase = 2
  /\ run.pc = "first"
  /\ Len(run.hexagons) = MaxInput
  /\ run.cell \in ChildCells
  /\ run.phase1Complete

\* C6: when Phase 2 of processTwoPhaseAlgorithm begins, every input cell
\* whose result count is dense has been split: its children are registered
\* and wait in the subdivision queue with status queued.
C6_Phase1SplitsDense ==
  (run.kind = "twoPhase" /\ run.pc = "phase2") =>
    \A i \in 1..Len(run.hexagons) :
      run.hexagons[i] \in run.dense =>
        /\ run.hexagons[i] \in DOMAIN hp.parentChildRelationships
        /\ hp.parentChildRelationships[run.hexagons[i]] # <<>>
        /\ \A c \in Range(hp.parentChildRelationships[run.hexagons[i]]) :
             /\ c \in SeqKeys(hp.subdivisionQueue)
             /\ hp.subdivisionQueue[SeqGet(hp.subdivisionQueue, c)].status = "queued"

\* C7: when a pipeline run returns its result, the subdivision queue is
\* empty: no cell is left with status queued.
C7_Phase2Drains ==
  [][(run.pc # "idle" /\ run'.pc = "idle" /\ run'.response = "ok")
       => hp'.subdivisionQueue = <<>>]_vars

\* C8: the children registered for a cell are at least one, none of them is
\* the cell itself, and each one waiting in the subdivision queue names the
\* cell as its parent, has status queued and is one resolution finer.
C8_ChildrenOneLevelFiner ==
  \A h \in DOMAIN hp.parentChildRelationships :
    LET kids == hp.parentChildRelationships[h]
    IN /\ kids # <<>>
       /\ \A c \in Range(kids) :
            /\ c # h
            /\ c \in SeqKeys(hp.subdivisionQueue) =>
                 LET rec == hp.subdivisionQueue[SeqGet(hp.subdivisionQueue, c)]
                 IN rec.parentH3Id = h => /\ rec.status = "queued"
                                          /\ rec.resolution = getResolution(h) + 1

\* C9: every child in childParentRelationships is in the child list of
\* exactly one parent of parentChildRelationships, the one the inverse map
\* records for it.
C9_ParentChildIndex ==
  \A c \in DOMAIN hp.childParentRelationships :
    {p \in DOMAIN hp.parentChildRelationships :
       c \in Range(hp.parentChildRelationships[p])}
      = {hp.childParentRelationships[c]}

\* C10: a stored cell record has status split exactly when its childH3Ids is
\* a non-empty list.
C10_SplitIffChildren ==
  \A rec \in StoredRecords : (rec.status = "split") <=> (rec.childH3Ids # <<>>)

\* the input cells Phase 1 of the run in progress has finished with
ClosedCells(r) == {r.hexagons[i] : i \in r.terminal \cap DOMAIN r.hexagons}

\* C11: within one pipeline run a cell whose status is fetched, failed or
\* split keeps that status: no step of the run being served changes the
\* status of a cell Phase 1 of that run has already finished with.
C11_TerminalIsFinal ==
  [][(run.pc # "idle" /\ run'.pc # "idle") =>
       \A h \in ClosedCells(run) :
         (h \in DOMAIN hp.processingQueue
            /\ hp.processingQueue[h].status \in TerminalStates)
           => hp'.processingQueue[h].status = hp.processingQueue[h].status]_vars

\* C12: processTwoPhaseAlgorithm returns a report whatever cells fail: while
\* it runs, phase1Results holds one entry for every input cell the loop has
\* passed, in input order, a failed cell included; when Phase 2 begins there
\* is exactly one entry per input cell; and the call ends by returning.
C12_ReportPerInputCell ==
  /\ run.kind = "twoPhase" =>
       /\ Len(run.phase1Results) = run.i - 1
       /\ \A k \in 1..Len(run.phase1Results) :
            run.phase1Results[k].h3Id = run.hexagons[k]
       /\ run.pc = "phase2" => Len(run.phase1Results) = Len(run.hexagons)
  /\ run.pc = "phase2" => ENABLED twoPhaseReturns

\* C12 witness: the first input cell failed and the next one was processed
C12_Witness ==
  /\ run.kind = "twoPhase"
  /\ run.pc = "phase2"
  /\ Len(run.hexagons) = MaxInput
  /\ run.phase1Results[1].status = "failed"
  /\ run.phase1Results[MaxInput].status = "fetched"

\* getProcessingStats().failed and .completed count these cells
failedCells(p) == DOMAIN p.failedHexagons
completedCells(p) == DOMAIN p.completedHexagons

\* C13: a cell whose search failed is recorded as failed: while the route
\* serves a run and when it has answered, every cell whose latest search in
\* that run returned status failed has status failed in the pipeline state,
\* is in failedHexagons and is not counted as completed.
C13_FailedSearchRecorded ==
  run.kind # "twoPhase" =>
    \A k \in 1..Len(run.phase1Results) :
      LET e == run.phase1Results[k]
      IN (/\ e.status = "failed"
          /\ \A j \in (k + 1)..Len(run.phase1Results) :
               run.phase1Results[j].h3Id # e.h3Id)
         => /\ e.h3Id \in DOMAIN hp.processingQueue
            /\ hp.processingQueue[e.h3Id].status = "failed"
            /\ e.h3Id \in failedCells(hp)
            /\ e.h3Id \notin completedCells(hp)

\* C14: a cell whose probes all failed with API errors does not end as
\* fetched: for every cell of the report whose latest search had every probe
\* fail, neither the report nor the pipeline state says fetched.
C14_ApiErrorsNotFetched ==
  run.kind # "twoPhase" =>
    \A k \in 1..Len(run.phase1Results) :
      LET e == run.phase1Results[k]
      IN (/\ e.allProbesFailed
          /\ \A j \in (k + 1)..Len(run.phase1Results) :
               run.phase1Results[j].h3Id # e.h3Id)
         => /\ e.status # "fetched"
            /\ hp.processingQueue[e.h3Id].status # "fetched"

\* C15: no partial admission of a batch: in a run of process_hexagons in
\* real mode it never happens that a cell of the batch was searched and a
\* later cell of the same batch failed with an insufficient-quota error.
C15_NoPartialAdmission ==
  (run.kind # "twoPhase" /\ ~run.testMode) =>
    \A k \in 1..Len(run.phase1Results) :
      run.phase1Results[k].error = "Insufficient quota" =>
        \A j \in 1..(k - 1) : run.phase1Results[j].status = "failed"

\* C16: the coverageStatus mergeSubHexagonResults returns is partial-dense
\* if any child total is above 240, otherwise partial-empty if any child
\* total is 0, otherwise complete.
C16_MergeStatusPrecedence ==
  call.fn = "mergeSubHexagonResults" =>
    LET rs == call.args
    IN call.result.coverageStatus =
         IF \E i \in 1..Len(rs) : rs[i].total > 240 THEN "partial-dense"
         ELSE IF \E i \in 1..Len(rs) : rs[i].total = 0 THEN "partial-empty"
         ELSE "complete"

RECURSIVE Concat(_)
\* the businesses of all child results, in order
Concat(rs) == IF rs = <<>> THEN <<>> ELSE Head(rs).businesses \o Concat(Tail(rs))

\* the positions of a list that hold the first business with their id
FirstPositions(in) ==
  {i \in DOMAIN in : \A j \in 1..(i - 1) : in[j].id # in[i].id}

\* out is the list in with every business but the first of each id removed
IsDedupOf(out, in) ==
  LET F == FirstPositions(in)
  IN /\ Len(out) = Cardinality(F)
     /\ \A k \in DOMAIN out :
          out[k] = in[CHOOSE i \in F : Cardinality({j \in F : j < i}) = k - 1]
     /\ \A a, b \in DOMAIN out : a # b => out[a].id # out[b].id
     /\ {out[k].id : k \in DOMAIN out} = {in[i].id : i \in DOMAIN in}

\* C17: the list deduplicateBusinesses returns, and the uniqueBusinesses of
\* mergeSubHexagonResults, has no two businesses with the same id, has
\* exactly the ids of the input, keeps the first business of each id in
\* input order, and deduplicating it again returns it unchanged.
C17_Deduplication ==
  /\ call.fn = "deduplicateBusinesses" =>
       /\ IsDedupOf(call.result, call.args)
       /\ deduplicateBusinesses(call.result) = call.result
  /\ call.fn = "mergeSubHexagonResults" =>
       /\ IsDedupOf(call.result.uniqueBusinesses, Concat(call.args))
       /\ deduplicateBusinesses(call.result.uniqueBusinesses)
            = call.result.uniqueBusinesses

\* C17 witness: a list in which the same id comes twice with different data
\* before another id; the second business of that id is dropped
C17_Witness ==
  /\ call.fn = "deduplicateBusinesses"
  /\ Len(call.args) = MaxItems
  /\ call.args[1].id = call.args[2].id
  /\ call.args[1].name # call.args[2].name
  /\ call.args[3].id # call.args[1].id
  /\ call.result = <<call.args[1], call.args[3]>>

\* C18: every density decision is "count > 240": detectDenseHexagon, the
\* needsSubdivision of the record processHexagonWithCoverage returns, the
\* needsSubdivision and the split of detectAndHandleSubdivision, and the
\* per-child status of mergeSubHexagonResults; 240 is not dense, 241 is.
C18_DensityThreshold ==
  /\ call.fn = "detectDenseHexagon" => call.result = (call.args > 240)
  /\ (call.fn = "processHexagonWithCoverage" /\ call.result.status # "failed") =>
       call.result.needsSubdivision = (call.args.totalBusinesses > 240)
  /\ (call.fn = "detectAndHandleSubdivision" /\ call.result.status # "failed") =>
       /\ call.result.needsSubdivision = (call.args.totalBusinesses > 240)
       /\ (call.result.status = "split") = (call.args.totalBusinesses > 240)
  /\ call.fn = "mergeSubHexagonResults" =>
       \A k \in 1..Len(call.args) :
         (call.result.subHexagonStatus[k].status = "dense")
           = (call.args[k].total > 240)

\* C18 witness: a cell with 241 businesses was found dense and split
C18_Witness ==
  /\ call.fn = "detectAndHandleSubdivision"
  /\ call.args.totalBusinesses = 241
  /\ call.result.status = "split"
  /\ call.result.needsSubdivision
  /\ call.args.h3Id \in DOMAIN call.processor.parentChildRelationships
  /\ call.processor.completedHexagons[call.args.h3Id].totalBusinesses = 241

\* C19: a split whose target resolution is not above the current one, is
\* more than 2 levels above it, or is above 12, fails: splitHexagon returns
\* no children, and handleDenseHexagons returns a failed record and leaves
\* the subdivision queue and the parent/child index as they were.
C19_SplitRejectsInvalid ==
  /\ call.fn = "splitHexagon" =>
       LET cur == call.args.currentResolution
           target == call.args.targetResolution
       IN (target <= cur \/ target - cur > 2 \/ target > 12) =>
            /\ ~call.result.ok
            /\ call.result.splitHexagons = <<>>
  /\ call.fn = "handleDenseHexagons" =>
       LET cur == call.args.currentResolution
           target == cur + 1
       IN (target <= cur \/ target - cur > 2 \/ target > 12) =>
            /\ call.result.status = "failed"
            /\ call.processor.subdivisionQueue = call.args.before.subdivisionQueue
            /\ call.processor.parentChildRelationships
                 = call.args.before.parentChildRelationships
            /\ call.processor.childParentRelationships
                 = call.args.before.childParentRelationships

\* C20: whenever estimateQuotaForCity reports riskLevel critical it reports
\* canProcessRequest false.
C20_CriticalMeansNoGo ==
  (call.fn = "estimateQuotaForCity" /\ call.result.riskLevel = "critical")
    => ~call.result.canProcessRequest


\* the probe list the planner contract describes for a cell of the given
\* boundary and area
PlanShape(boundary, area, pts) ==
  LET n == IF area <= 3 THEN 1 ELSE IF area <= 8 THEN 3 ELSE 6
      nc == IF area <= 3 THEN 0 ELSE IF area <= 8 THEN 2 ELSE 3
  IN /\ Len(pts) = n
     /\ pts[1] = Probe("primary", <<>>)
     /\ \A i \in 2..n : pts[i].type # "primary"
     /\ \A i \in 1..nc : pts[1 + i] = Probe("corner", <<boundary[i]>>)
     /\ \A i \in 1..(n - 1 - nc) :
          pts[1 + nc + i] = Probe("edge", <<boundary[i], boundary[i + 1]>>)

C22_ValidationContract ==
  call.fn = "validateCoverage" =>
    LET pts == call.args.searchPoints
        primaries == {i \in 1..Len(pts) : pts[i].type = "primary"}
        corners == {i \in 1..Len(pts) : pts[i].type = "corner"}
    IN call.result <=>
         /\ Len(pts) >= 1
         /\ Cardinality(primaries) = 1
         /\ calculateHexagonArea(call.args.h3Id) > 10 => Cardinality(corners) >= 2

\* C23: the planner never raises: for a cell whose center, boundary or area
\* the grid library cannot compute, generateSearchPoints returns a plan of
\* one primary probe and does not throw
C23_PlannerNeverRaises ==
  call.fn = "generateSearchPoints" /\ call.args.h3Id \notin KnownCells =>
    /\ call.result.ok
    /\ Len(call.result.searchPoints) = 1
    /\ call.result.searchPoints[1].type = "primary"

C25_EveryRequestHoldsSlot ==
  /\ Len(run.requested) <= run.slots
  /\ run.pc = "sleep" => Len(run.requested) = run.slots

\* the entries of a list at the positions K, in their order
EntriesAt(in, K) ==
  [k \in 1..Cardinality(K) |->
     in[CHOOSE i \in K : Cardinality({j \in K : j < i}) = k - 1]]

\* C26: boundary validation drops on mismatch and fails open: the validated
\* list holds, in their order, exactly the items whose coordinates resolve at
\* the resolution of the cell to the cell's own id and the items whose
\* lookup throws; items that resolve to another cell are dropped
C26_BoundaryValidation ==
  call.fn = "validateBusinessBoundaries" =>
    LET h == call.args.h3Id
        Resolves(b) == ~lookupThrows(h, b)
                       /\ latLngToCell(b.at, getResolution(h)) = h
        Keep(b) == Resolves(b) \/ lookupThrows(h, b)
        in == call.args.businesses
    IN /\ call.result = EntriesAt(in, {i \in DOMAIN in : Keep(in[i])})
       /\ \A i \in DOMAIN call.result :
            LET b == call.result[i]
            IN lookupThrows(h, b) \/ latLngToCell(b.at, getResolution(h)) = h

\* of three items given for a valid cell, the one inside the cell and the one
\* without coordinates are kept and the one in the sibling cell is dropped
C26_Witness ==
  /\ call.fn = "validateBusinessBoundaries"
  /\ call.args.h3Id = ChildId(1, 1)
  /\ Len(call.args.businesses) = 3
  /\ call.args.businesses[1].at = ChildId(1, 2)
  /\ call.args.businesses[2].at = NoCoordinates
  /\ call.args.businesses[3].at = ChildId(1, 1)
  /\ call.result = SubSeq(call.args.businesses, 2, 3)

\* the entries of a list, as a set
Entries(l) == {l[i] : i \in DOMAIN l}

\* C27: a cross-cell leak is not lost from the run: an item that a probe of
\* cell A returns, that resolves to the sibling cell B processed in the same
\* run, and that a probe of B returns too, is absent from the uniqueBusinesses
\* of A and present (under its id) in the uniqueBusinesses of B, hence in the
\* combined results of the run
C27_LeakNotLost ==
  call.fn = "processSearchResults" =>
    LET A == call.args.A
        B == call.args.B
        fromA == Entries(flatMapBusinesses(call.args.searchResultsA))
        fromB == Entries(flatMapBusinesses(call.args.searchResultsB))
        uniqueA == Entries(call.result[1].uniqueBusinesses)
        uniqueB == Entries(call.result[2].uniqueBusinesses)
    IN \A x \in fromA \cap fromB :
         x.at # NoCoordinates /\ latLngToCell(x.at, getResolution(A)) = B =>
           /\ x \notin uniqueA
           /\ call.result[2].h3Id = B
           /\ \E y \in uniqueB : y.id = x.id
           /\ \E k \in DOMAIN call.result :
                \E y \in Entries(call.result[k].uniqueBusinesses) : y.id = x.id

\* the first probe of A and the second probe of B returned the same item of
\* B: the results of the run list it under B only
C27_Witness ==
  /\ call.fn = "processSearchResults"
  /\ Len(call.args.searchResultsA[1]) = 1
  /\ call.args.searchResultsA[1][1].at = call.args.B
  /\ call.args.searchResultsB[1] = <<>>
  /\ call.args.searchResultsB[2] = call.args.searchResultsA[1]
  /\ call.result[1].uniqueBusinesses = <<>>
  /\ call.result[2].uniqueBusinesses = call.args.searchResultsA[1]

\* C28: overall coverage quality of the final report: with s the number of
\* results whose status is fetched or split and n the number of results,
\* coverageQuality is excellent iff s = n, good iff s < n and s > 0.8 n, fair
\* iff s <= 0.8 n and s > 0.6 n, poor otherwise; totalProcessed is s and
\* totalSplit the number of split results
C28_CoverageQuality ==
  call.fn = "finalStats" =>
    LET all == call.args
        n == Len(all)
        s == Cardinality({i \in DOMAIN all : all[i].status \in {"fetched", "split"}})
        q == call.result.coverageQuality
    IN /\ q = "excellent" <=> s = n
       /\ q = "good" <=> s < n /\ 10 * s > 8 * n
       /\ q = "fair" <=> 10 * s <= 8 * n /\ 10 * s > 6 * n
       /\ q = "poor" <=> 10 * s <= 6 * n /\ s # n
       /\ call.result.totalProcessed = s
       /\ call.result.totalSplit =
            Cardinality({i \in DOMAIN all : all[i].status = "split"})

\* four of five results succeeded, exactly 0.8 of them: the quality is fair
C28_Witness ==
  /\ call.fn = "finalStats"
  /\ Len(call.args) = 5
  /\ call.result.totalProcessed = 4
  /\ call.result.totalSplit = 1
  /\ call.result.coverageQuality = "fair"

\* C29: clearHistory resets all state: after clear_history the processing
\* queue, the completed and failed sets, the subdivision queue and both
\* parent/child maps are empty, the daily and per-second counters of the
\* quota manager are 0, and the daily and per-second counters of the rate
\* limiter are 0 with nobody left waiting in its queue
C29_ClearResetsAll ==
  [][clearHistory =>
       /\ hp' = clearedProcessor
       /\ qm'.dailyUsage = 0 /\ qm'.currentSecondUsage = 0
       /\ dailyCalls' = 0 /\ perSecondCalls' = 0
       /\ requestQueue' = <<>>]_vars

\* C30: no lost wake-up in the limiter: whenever requestQueue is not empty
\* a processQueue loop is running or a timer that will call processQueue is
\* pending, and, the timers firing, every caller that waitForSlot placed in
\* requestQueue is eventually admitted (it leaves the queue)
C30_NoLostWakeup ==
  /\ [](Len(requestQueue) > 0 =>
          isProcessing \/ \E d \in DOMAIN retryTimers : retryTimers[d] > 0)
  /\ \A c \in 1..MaxCallers : (c \in Waiting) ~> (c \notin Waiting)

\* the processWithRetry call in progress, if there is one with maxRetries >= 1
RetryCall ==
  /\ call # NoCall
  /\ call.fn = "processWithRetry"
  /\ call.args.maxRetries >= 1

\* the attempts that failed and were not the last one allowed
FailedNotLast(c) ==
  {i \in 1..Len(c.outcomes) :
     c.outcomes[i].kind = "throw" /\ i # c.args.maxRetries}

RetryBounds ==
  RetryCall =>
    /\ call.invoked >= 1
    /\ call.invoked <= call.args.maxRetries
    /\ Len(call.outcomes) <= call.invoked
    /\ \A i \in 1..(Len(call.outcomes) - 1) : call.outcomes[i].kind = "throw"
    /\ call.waits = [i \in 1..Cardinality(FailedNotLast(call)) |-> i]
    /\ call.pc = "returned" =>
         /\ call.invoked = Len(call.outcomes)
         /\ call.outcomes[call.invoked].kind = "value"
         /\ call.result = call.outcomes[call.invoked]
    /\ call.pc = "thrown" =>
         /\ call.invoked = call.args.maxRetries
         /\ Len(call.outcomes) = call.args.maxRetries
         /\ call.outcomes[call.invoked].kind = "throw"
         /\ call.result = asError(call.outcomes[call.invoked])

\* C31: for maxRetries >= 1, processWithRetry invokes the operation at least
\* once and at most maxRetries times; it returns the value of the first
\* attempt that succeeds and does not invoke the operation again; after
\* maxRetries failures in a row it throws the error of the last attempt (as
\* an Error); it has waited exactly after the failed attempts that were not
\* the last; and every call ends by returning or throwing.
C31_RetryAttemptBound ==
  /\ [] RetryBounds
  /\ (RetryCall /\ call.pc \in {"operation", "delay"})
       ~> (call = NoCall \/ call.pc \in {"returned", "thrown"})

\* three attempts allowed, the first two fail, the third succeeds
C31_Witness ==
  /\ RetryCall
  /\ call.args.maxRetries = 3
  /\ call.pc = "returned"
  /\ call.invoked = 3
  /\ call.waits = <<1, 2>>
  /\ call.outcomes[1].kind = "throw"
  /\ call.outcomes[2].kind = "throw"
  /\ call.result.kind = "value"


\* the retryFailedHexagons call that has returned, if there is one
RetryFailedCall == call # NoCall /\ call.fn = "retryFailedHexagons"

\* the counts add up, and the cells are in the maps the counts say
RetryFailedAccounting ==
  RetryFailedCall =>
    /\ call.result.retriedCount =
         call.result.successCount + call.result.stillFailedCount
    /\ call.result.retriedCount = Cardinality(DOMAIN call.args.before.failedHexagons)
    /\ call.result.successCount = Cardinality(call.succeeded)
    /\ call.result.stillFailedCount = Cardinality(call.stillFailed)
    /\ \A h \in call.succeeded : h \notin DOMAIN call.processor.failedHexagons
    /\ \A h \in call.stillFailed : h \in DOMAIN call.processor.failedHexagons

\* C32: when retryFailedHexagons(maxRetries) returns, every cell counted in
\* stillFailedCount was attempted maxRetries times, retriedCount =
\* successCount + stillFailedCount, every successfully retried cell is out
\* of failedHexagons and every still-failing cell is in failedHexagons.
C32_RetryFailedAttempts ==
  /\ RetryFailedAccounting
  /\ RetryFailedCall =>
       \A h \in call.stillFailed : call.attempts[h] = call.args.maxRetries


\* C33: in every reachable state of the processor no cell id is in both
\* completedHexagons and failedHexagons, every entry of completedHexagons
\* has status fetched or split, and every entry of failedHexagons has
\* status failed.
C33_CompletedFailedConsistent ==
  /\ DOMAIN hp.completedHexagons \cap DOMAIN hp.failedHexagons = {}
  /\ \A h \in DOMAIN hp.completedHexagons :
       hp.completedHexagons[h].status \in {"fetched", "split"}
  /\ \A h \in DOMAIN hp.failedHexagons :
       hp.failedHexagons[h].status = "failed"


\* the only probe of a single-probe cell has returned
SingleProbeDone ==
  /\ run.kind = "route"
  /\ run.pc = "sleep"
  /\ run.nProbes = 1
  /\ run.probe = 1

\* C34: a cell whose plan has only the primary probe is never detected as
\* dense: while its probe pages, and when it has returned, at most 200
\* businesses have been collected, so no count that is left of them after
\* validation and de-duplication is dense, whatever total the API reported.
C34_SingleProbeNeverDense ==
  /\ (run.kind = "route" /\ run.nProbes = 1) =>
       /\ run.acc <= MaxOffset
       /\ run.sum <= MaxOffset
  /\ SingleProbeDone =>
       \A n \in 0..run.sum : ~detectDenseHexagon(n)

\* a child cell whose probe fetched four full pages
C34_Witness ==
  /\ SingleProbeDone
  /\ run.cell \in ChildCells
  /\ run.requested = <<0, 50, 100, 150>>
  /\ run.lastPage = "full"
  /\ run.sum = MaxOffset


\* the two counters of calls made today
CountersAgree == qm.dailyUsage = dailyCalls

\* the probe that has just ended was granted as many slots as it sent
\* requests
SlotsMatchRequests == run.pc = "sleep" => run.slots = Len(run.requested)

\* C35: between resets the daily usage of the quota manager equals the
\* number of admissions the rate limiter has counted, and both equal the
\* number of search requests sent (compared probe by probe: each probe was
\* admitted once per request it sent).
C35_QuotaCountersAgree == CountersAgree /\ SlotsMatchRequests


====
